---- MODULE Spec2Model ----
(***************************************************************************)
(* A model of the SMS parsing engine of FinGuard IntelliAgent              *)
(* (src/tools/sms_parser_tool.py): the field normalizers, the ten regex    *)
(* templates, the dispatcher parse_sms, the batch driver parse_bulk and    *)
(* the aggregator get_statistics.                                          *)
(*                                                                         *)
(* A text is a string seen at the granularity the regexes see it: leading  *)
(* whitespace, a sequence of clauses, trailing whitespace.  A clause is    *)
(* one literal anchor phrase of the provider text together with the        *)
(* substrings its capture slots hold; a captured amount is a sequence of   *)
(* characters, a captured date a day, a month and a year.                  *)
(***************************************************************************)
EXTENDS Integers, Sequences, FiniteSets, TLC

VARIABLES pc, sms_in, sms_out, sms_list, results, parsed_list, stats,
          clock, frames, self_patterns, self_transaction_types,
          invoices, invoices_file, payment_registry, runs,
          sessions, max_history, added,
          agent_pc, max_iterations, queries, run_user_id, history, chat,
          iteration, logs, agent_result

\* Python's None.
None == [none |-> TRUE]

\* The attributes of the parser object: the compiled patterns and the list
\* of supported types.
registryVars == <<self_patterns, self_transaction_types>>

\* The state of the SMS parser and of its callers.
parserVars == <<pc, sms_in, sms_out, sms_list, results, parsed_list, stats,
                clock, frames, registryVars>>

\* The state of the payment tool: the invoices its data manager caches,
\* the invoices file, the payments the Daraja service has registered, and
\* the calls of run made so far with what each returned.
payVars == <<invoices, invoices_file, payment_registry, runs>>

\* The state of the session store: the history kept for each user and the
\* limit given to the constructor; added holds, for each user, every turn
\* added since the user's session was last cleared.
storeVars == <<sessions, max_history, added>>

\* The state of the agent: where its caller is, the limit given to the
\* constructor, the number of queries run so far and, for the run in
\* progress, the user, the history fetched, the answers the chat has
\* received, the loop counter, the trace logger's logs and the dictionary
\* returned.
agentVars == <<agent_pc, max_iterations, queries, run_user_id, history, chat,
               iteration, logs, agent_result>>

\* What the parser's operations never touch.
otherVars == <<payVars, storeVars, agentVars>>

vars == <<parserVars, otherVars>>

\* No tool other than the parser has been constructed.
OthersIdle ==
    /\ invoices = <<>>
    /\ invoices_file = <<>>
    /\ payment_registry = <<>>
    /\ runs = <<>>
    /\ sessions = <<>>
    /\ max_history = 10
    /\ added = <<>>
    /\ agent_pc = "idle"
    /\ max_iterations = 5
    /\ queries = 0
    /\ run_user_id = None
    /\ history = None
    /\ chat = <<>>
    /\ iteration = 0
    /\ logs = <<>>
    /\ agent_result = None


(***************************************************************************)
(* Transaction type constants and the list built by the constructor.       *)
(***************************************************************************)
MPESA_RECEIVED == "received"
MPESA_SENT == "sent"
MPESA_PAYBILL == "paybill"
MPESA_TILL == "till"
MPESA_WITHDRAWAL == "withdrawal"
MPESA_AIRTIME == "airtime"
BANK_DEPOSIT == "bank_deposit"
BANK_WITHDRAWAL == "bank_withdrawal"
BANK_TRANSFER == "bank_transfer"

\* A list of supported types that leaves out the bank transactions.
transaction_types_mpesa_only ==
    << MPESA_RECEIVED, MPESA_SENT, MPESA_PAYBILL, MPESA_TILL, MPESA_WITHDRAWAL,
       MPESA_AIRTIME >>

transaction_types ==
    << MPESA_RECEIVED, MPESA_SENT, MPESA_PAYBILL, MPESA_TILL, MPESA_WITHDRAWAL,
       MPESA_AIRTIME, BANK_DEPOSIT, BANK_WITHDRAWAL, BANK_TRANSFER >>

(***************************************************************************)
(* Field normalizers.                                                      *)
(***************************************************************************)
Digits == {"0", "1", "2", "3", "4", "5", "6", "7", "8", "9"}

DigitVal(c) ==
    CASE c = "0" -> 0 [] c = "1" -> 1 [] c = "2" -> 2 [] c = "3" -> 3
      [] c = "4" -> 4 [] c = "5" -> 5 [] c = "6" -> 6 [] c = "7" -> 7
      [] c = "8" -> 8 [] c = "9" -> 9

\* The value of a sequence of decimal digits (0 for the empty sequence).
RECURSIVE DigitsVal(_)
DigitsVal(s) ==
    IF s = <<>> THEN 0
    ELSE 10 * DigitsVal(SubSeq(s, 1, Len(s) - 1)) + DigitVal(s[Len(s)])

\* The index of the first "." of s, or 0.
DotAt(s) ==
    IF \E i \in 1..Len(s) : s[i] = "."
    THEN CHOOSE i \in 1..Len(s) : s[i] = "." /\ \A j \in 1..(i - 1) : s[j] # "."
    ELSE 0

\* Decimal(str): an optional sign, digits with at most one point and at
\* least one digit; anything else raises decimal.InvalidOperation.  The
\* value keeps the exponent the string was written with.
Decimal(str) ==
    LET neg   == Len(str) > 0 /\ str[1] = "-"
        body  == IF neg THEN SubSeq(str, 2, Len(str)) ELSE str
        dot   == DotAt(body)
        ipart == IF dot = 0 THEN body ELSE SubSeq(body, 1, dot - 1)
        fpart == IF dot = 0 THEN <<>> ELSE SubSeq(body, dot + 1, Len(body))
        wellformed ==
            /\ \A i \in 1..Len(ipart) : ipart[i] \in Digits
            /\ \A i \in 1..Len(fpart) : fpart[i] \in Digits
            /\ Len(ipart) + Len(fpart) > 0
        mag   == DigitsVal(ipart \o fpart)
    IN  IF wellformed
        THEN [ok |-> TRUE,
              val |-> [coef |-> IF neg THEN 0 - mag ELSE mag, exp |-> Len(fpart)]]
        ELSE [ok |-> FALSE, exc |-> "InvalidOperation"]

\* str.replace(',', '')
RemoveCommas(str) == SelectSeq(str, LAMBDA c : c # ",")

\* A normalizer that refuses amounts that are not positive.
_parse_amount_positive(amount_str) ==
    LET d == Decimal(RemoveCommas(amount_str))
    IN  IF d.ok /\ d.val.coef <= 0 THEN [ok |-> FALSE, exc |-> "ValueError"] ELSE d

_parse_amount(amount_str) == Decimal(RemoveCommas(amount_str))

RECURSIVE Pow10(_)
Pow10(n) == IF n = 0 THEN 1 ELSE 10 * Pow10(n - 1)

\* An addition of the coefficients that does not align the exponents.
DecAddUnaligned(a, b) == [coef |-> a.coef + b.coef, exp |-> a.exp]

\* Decimal + Decimal: the result carries the larger number of fractional
\* digits and is exact while it has at most 28 significant digits (the
\* precision of the default context), as every sum of the amounts here has.
DecAdd(a, b) ==
    LET e == IF a.exp >= b.exp THEN a.exp ELSE b.exp
    IN  [coef |-> a.coef * Pow10(e - a.exp) + b.coef * Pow10(e - b.exp), exp |-> e]

\* Decimal('0.00')
DecZero == [coef |-> 0, exp |-> 2]

(***************************************************************************)
(* Timestamps.  A captured date holds its digit groups as written; a       *)
(* datetime is compared field by field, most significant first.            *)
(***************************************************************************)
IsLeap(y) == (y % 4 = 0 /\ y % 100 # 0) \/ y % 400 = 0

DaysInMonth(m, y) ==
    IF m = 2 THEN (IF IsLeap(y) THEN 29 ELSE 28)
    ELSE IF m \in {4, 6, 9, 11} THEN 30 ELSE 31

\* %b: the month a three-letter abbreviation names, 0 when it names none.
MonthAbbr(b) ==
    CASE b = "Jan" -> 1 [] b = "Feb" -> 2 [] b = "Mar" -> 3 [] b = "Apr" -> 4
      [] b = "May" -> 5 [] b = "Jun" -> 6 [] b = "Jul" -> 7 [] b = "Aug" -> 8
      [] b = "Sep" -> 9 [] b = "Oct" -> 10 [] b = "Nov" -> 11 [] b = "Dec" -> 12
      [] OTHER -> 0

\* A construction that accepts every day, month, hour and minute number.
MakeDatetimeUnchecked(y, m, d, hour, mi) ==
    [ok |-> TRUE,
     val |-> [year |-> y, month |-> m, day |-> d, hour |-> hour, minute |-> mi]]

\* datetime(year, month, day, hour, minute), or the ValueError strptime
\* raises for a value outside the calendar or the clock.
MakeDatetime(y, m, d, hour, mi) ==
    IF /\ y >= 1
       /\ m \in 1..12
       /\ d >= 1 /\ d <= DaysInMonth(m, y)
       /\ hour \in 0..23
       /\ mi \in 0..59
    THEN [ok |-> TRUE,
          val |-> [year |-> y, month |-> m, day |-> d, hour |-> hour, minute |-> mi]]
    ELSE [ok |-> FALSE, exc |-> "ValueError"]

\* A timestamp taken from the system clock at the time of parsing.
_parse_mpesa_datetime_now(date_str, time_str) == [ok |-> TRUE, val |-> clock]

\* strptime(date + " " + time, "%d/%m/%Y %I:%M %p")
_parse_mpesa_datetime(date_str, time_str) ==
    LET h == DigitsVal(time_str.hh)
    IN  IF h \in 1..12
        THEN MakeDatetime(DigitsVal(date_str.yyyy), DigitsVal(date_str.mm),
                          DigitsVal(date_str.dd),
                          (h % 12) + (IF time_str.p = "PM" THEN 12 ELSE 0),
                          DigitsVal(time_str.mi))
        ELSE [ok |-> FALSE, exc |-> "ValueError"]

\* strptime(date, "%d-%b-%Y"): midnight of that day.
_parse_bank_date(date_str) ==
    MakeDatetime(DigitsVal(date_str.yyyy), MonthAbbr(date_str.mon),
                 DigitsVal(date_str.dd), 0, 0)

DtKey(t) == <<t.year, t.month, t.day, t.hour, t.minute>>

RECURSIVE LexLess(_, _)
LexLess(a, b) ==
    IF a = <<>> \/ b = <<>> THEN FALSE
    ELSE IF a[1] # b[1] THEN a[1] < b[1]
    ELSE LexLess(Tail(a), Tail(b))

\* The comparison turned around.
DtGreater(a, b) == LexLess(DtKey(b), DtKey(a))

\* datetime < datetime
DtLess(a, b) == LexLess(DtKey(a), DtKey(b))

(***************************************************************************)
(* Clauses of a message and the compiled patterns.  Every pattern is a     *)
(* chain of anchors joined by the lazy ".*?": a header anchor, then the    *)
(* balance anchor, then (for some templates) a closing anchor.             *)
(***************************************************************************)
\* "<reference> Confirmed. <phrase of tpl> Ksh<amount> ... on <date> at <time>"
MpesaHeader(tpl, reference, amount, party, number, date, time) ==
    [k |-> "mpesa", tpl |-> tpl, reference |-> reference, amount |-> amount,
     party |-> party, number |-> number, date |-> date, time |-> time]

\* "New M-PESA balance is Ksh<balance>" or "New balance is Ksh<balance>"
BalanceClause(mpesa, balance) == [k |-> "balance", mpesa |-> mpesa, balance |-> balance]

\* "Transaction cost, Ksh<cost>"
CostClause(cost) == [k |-> "cost", cost |-> cost]

\* "<bank> Bank: Transfer of KES <amount> to <party> successful",
\* "<bank> Bank: Deposit of KES <amount> received",
\* "<bank> Bank: Withdrawal of KES <amount> successful"
BankHeader(tpl, bank, amount, party) ==
    [k |-> "bank", tpl |-> tpl, bank |-> bank, amount |-> amount, party |-> party]

\* "Acc <account> Balance: KES <balance>"
AccBalanceClause(account, balance) ==
    [k |-> "accbal", account |-> account, balance |-> balance]

\* "Ref: <reference> on <date>", or "Ref: <reference>" when date is None
RefClause(reference, date) == [k |-> "ref", reference |-> reference, date |-> date]

\* "<bank> Bank: Acc <account> debited KES <amount> on <date>" (verb
\* "debited"), or "... credited with KES <amount> on <date>"
BankAccHeader(verb, bank, account, amount, date) ==
    [k |-> "bankacc", verb |-> verb, bank |-> bank, account |-> account,
     amount |-> amount, date |-> date]

\* "Balance: KES <balance>"
BankBalanceClause(balance) == [k |-> "bankbal", balance |-> balance]

\* Text that holds no anchor phrase, such as "Hello, how are you?"
Junk == [k |-> "junk"]

\* The names the bank patterns accept before the colon: one of ten names
\* followed by "Bank".
BankNames ==
    {"KCB Bank", "Equity Bank", "Co-operative Bank", "Barclays Bank",
     "Standard Chartered Bank", "NCBA Bank", "I&M Bank", "DTB Bank",
     "Family Bank", "Stanbic Bank"}

\* Does the clause hold the letters "Tr" (in any case)?
ContainsTr(tok) == tok.k = "cost" \/ (tok.k = "bank" /\ tok.tpl = "Transfer")

\* Does clause tok match the n-th anchor of the pattern of parser f?
Anchor(f, n, tok) ==
    CASE f = "_parse_mpesa_received" ->
           \/ n = 1 /\ tok.k = "mpesa" /\ tok.tpl = "received"
           \/ n = 2 /\ tok.k = "balance" /\ tok.mpesa
      [] f = "_parse_mpesa_sent" ->
           \/ n = 1 /\ tok.k = "mpesa" /\ tok.tpl = "sent"
           \/ n = 2 /\ tok.k = "balance" /\ tok.mpesa
           \/ n = 3 /\ tok.k = "cost"
      [] f = "_parse_mpesa_paybill" ->
           \/ n = 1 /\ tok.k = "mpesa" /\ tok.tpl = "paybill"
           \/ n = 2 /\ tok.k = "balance" /\ ~tok.mpesa
           \/ n = 3 /\ tok.k = "cost"
      [] f = "_parse_mpesa_till" ->
           \/ n = 1 /\ tok.k = "mpesa" /\ tok.tpl = "till"
           \/ n = 2 /\ tok.k = "balance" /\ ~tok.mpesa
           \/ n = 3 /\ tok.k = "cost"
      [] f = "_parse_mpesa_withdrawal" ->
           \/ n = 1 /\ tok.k = "mpesa" /\ tok.tpl = "withdrawal"
           \/ n = 2 /\ tok.k = "balance"
           \/ n = 3 /\ ContainsTr(tok)
      [] f = "_parse_mpesa_airtime" ->
           \/ n = 1 /\ tok.k = "mpesa" /\ tok.tpl = "airtime"
           \/ n = 2 /\ tok.k = "balance" /\ ~tok.mpesa
      [] f = "_parse_bank_transfer" ->
           \/ n = 1 /\ tok.k = "bank" /\ tok.tpl = "Transfer" /\ tok.bank \in BankNames
           \/ n = 2 /\ tok.k = "accbal"
           \/ n = 3 /\ tok.k = "ref" /\ tok.date # None
      [] f = "_parse_bank_deposit" ->
           \/ n = 1 /\ tok.k = "bank" /\ tok.tpl = "Deposit" /\ tok.bank \in BankNames
           \/ n = 2 /\ tok.k = "accbal"
           \/ n = 3 /\ tok.k = "ref" /\ tok.date # None
      [] f = "_parse_bank_withdrawal" ->
           \/ n = 1 /\ tok.k = "bank" /\ tok.tpl = "Withdrawal" /\ tok.bank \in BankNames
           \/ n = 2 /\ tok.k = "accbal"
           \/ n = 3 /\ tok.k = "ref" /\ tok.date # None
      [] f = "_parse_bank_debit" ->
           \/ n = 1 /\ tok.k = "bankacc" /\ tok.verb = "debited"
              /\ tok.bank \in BankNames
           \/ n = 2 /\ tok.k \in {"accbal", "bankbal"}
           \/ n = 3 /\ tok.k = "ref"

\* The number of anchors of the pattern of parser f.
NAnchors(f) ==
    IF f \in {"_parse_mpesa_received", "_parse_mpesa_airtime"} THEN 2 ELSE 3

\* The first clause at or after position i that matches anchor n, or 0.
FirstAt(f, n, toks, i) ==
    LET S == {j \in i..Len(toks) : Anchor(f, n, toks[j])}
    IN  IF S = {} THEN 0 ELSE CHOOSE j \in S : \A l \in S : j <= l

\* The clauses the anchors after the first bind to when the header is at
\* position i: each lazy ".*?" stops at the nearest clause its anchor
\* matches.  <<>> when some anchor finds no clause.
RECURSIVE ChainFrom(_, _, _, _)
ChainFrom(f, n, toks, i) ==
    IF n > NAnchors(f) THEN <<i>>
    ELSE LET j == FirstAt(f, n, toks, i + 1)
         IN  IF j = 0 THEN <<>>
             ELSE LET rest == ChainFrom(f, n + 1, toks, j)
                  IN  IF rest = <<>> THEN <<>> ELSE <<i>> \o rest

\* pattern.search(text): the leftmost header from which the whole pattern
\* matches, with the clauses bound to its anchors; <<>> for no match.
Search(f, toks) ==
    LET S == {i \in 1..Len(toks) :
                 Anchor(f, 1, toks[i]) /\ ChainFrom(f, 2, toks, i) # <<>>}
    IN  IF S = {} THEN <<>>
        ELSE ChainFrom(f, 2, toks, CHOOSE i \in S : \A l \in S : i <= l)

(***************************************************************************)
(* The parser functions.  Each returns None when its pattern does not      *)
(* match; otherwise it builds the dictionary, evaluating the normalizers   *)
(* in the order the dictionary display lists them, and the first one that  *)
(* raises ends the call with its exception.                                *)
(***************************************************************************)
\* "return None" of a parser function.
NoMatch == [st |-> "none"]

\* The dictionary display: fields holds the normalizer results in the
\* order they are evaluated, rec the dictionary built when none raised.
Built(fields, rec) ==
    LET bad == {i \in 1..Len(fields) : ~fields[i].ok}
    IN  IF bad = {} THEN [st |-> "ok", rec |-> rec]
        ELSE [st |-> "raise",
              exc |-> fields[CHOOSE i \in bad : \A j \in bad : i <= j].exc]

_parse_mpesa_received(sms_text, match) ==
    LET toks == sms_text.toks
        m    == match
    IN  IF m = <<>> THEN NoMatch
        ELSE
         LET h       == toks[m[1]]
             amount  == _parse_amount(h.amount)
             date    == _parse_mpesa_datetime(h.date, h.time)
             balance == _parse_amount(toks[m[2]].balance)
         IN  Built(<<amount, date, balance>>,
                   [transaction_type |-> MPESA_RECEIVED,
                    reference |-> h.reference,
                    amount |-> amount.val,
                    sender |-> h.party,
                    phone |-> h.number,
                    date |-> date.val,
                    balance |-> balance.val,
                    transaction_cost |-> DecZero,
                    raw_text |-> sms_text])

\* A variant of the sent template that sets the cost to zero as the
\* withdrawal template does.
_parse_mpesa_sent_zero_cost(sms_text, match) ==
    LET toks == sms_text.toks
        m    == match
    IN  IF m = <<>> THEN NoMatch
        ELSE
         LET h       == toks[m[1]]
             amount  == _parse_amount(h.amount)
             date    == _parse_mpesa_datetime(h.date, h.time)
             balance == _parse_amount(toks[m[2]].balance)
             cost    == _parse_amount(toks[m[3]].cost)
         IN  Built(<<amount, date, balance, cost>>,
                   [transaction_type |-> MPESA_SENT,
                    reference |-> h.reference,
                    amount |-> amount.val,
                    recipient |-> h.party,
                    phone |-> h.number,
                    date |-> date.val,
                    balance |-> balance.val,
                    transaction_cost |-> DecZero,
                    raw_text |-> sms_text])

_parse_mpesa_sent(sms_text, match) ==
    LET toks == sms_text.toks
        m    == match
    IN  IF m = <<>> THEN NoMatch
        ELSE
         LET h       == toks[m[1]]
             amount  == _parse_amount(h.amount)
             date    == _parse_mpesa_datetime(h.date, h.time)
             balance == _parse_amount(toks[m[2]].balance)
             cost    == _parse_amount(toks[m[3]].cost)
         IN  Built(<<amount, date, balance, cost>>,
                   [transaction_type |-> MPESA_SENT,
                    reference |-> h.reference,
                    amount |-> amount.val,
                    recipient |-> h.party,
                    phone |-> h.number,
                    date |-> date.val,
                    balance |-> balance.val,
                    transaction_cost |-> cost.val,
                    raw_text |-> sms_text])

_parse_mpesa_paybill(sms_text, match) ==
    LET toks == sms_text.toks
        m    == match
    IN  IF m = <<>> THEN NoMatch
        ELSE
         LET h       == toks[m[1]]
             amount  == _parse_amount(h.amount)
             date    == _parse_mpesa_datetime(h.date, h.time)
             balance == _parse_amount(toks[m[2]].balance)
             cost    == _parse_amount(toks[m[3]].cost)
         IN  Built(<<amount, date, balance, cost>>,
                   [transaction_type |-> MPESA_PAYBILL,
                    reference |-> h.reference,
                    amount |-> amount.val,
                    merchant |-> h.party,
                    account_number |-> h.number,
                    date |-> date.val,
                    balance |-> balance.val,
                    transaction_cost |-> cost.val,
                    raw_text |-> sms_text])

_parse_mpesa_till(sms_text, match) ==
    LET toks == sms_text.toks
        m    == match
    IN  IF m = <<>> THEN NoMatch
        ELSE
         LET h       == toks[m[1]]
             amount  == _parse_amount(h.amount)
             date    == _parse_mpesa_datetime(h.date, h.time)
             balance == _parse_amount(toks[m[2]].balance)
             cost    == _parse_amount(toks[m[3]].cost)
         IN  Built(<<amount, date, balance, cost>>,
                   [transaction_type |-> MPESA_TILL,
                    reference |-> h.reference,
                    amount |-> amount.val,
                    merchant |-> h.party,
                    till_number |-> h.number,
                    date |-> date.val,
                    balance |-> balance.val,
                    transaction_cost |-> cost.val,
                    raw_text |-> sms_text])

_parse_mpesa_withdrawal(sms_text, match) ==
    LET toks == sms_text.toks
        m    == match
    IN  IF m = <<>> THEN NoMatch
        ELSE
         LET h       == toks[m[1]]
             amount  == _parse_amount(h.amount)
             date    == _parse_mpesa_datetime(h.date, h.time)
             balance == _parse_amount(toks[m[2]].balance)
         IN  Built(<<amount, date, balance>>,
                   [transaction_type |-> MPESA_WITHDRAWAL,
                    reference |-> h.reference,
                    amount |-> amount.val,
                    agent_name |-> h.party,
                    agent_number |-> h.number,
                    date |-> date.val,
                    balance |-> balance.val,
                    transaction_cost |-> DecZero,
                    raw_text |-> sms_text])

_parse_mpesa_airtime(sms_text, match) ==
    LET toks == sms_text.toks
        m    == match
    IN  IF m = <<>> THEN NoMatch
        ELSE
         LET h       == toks[m[1]]
             amount  == _parse_amount(h.amount)
             date    == _parse_mpesa_datetime(h.date, h.time)
             balance == _parse_amount(toks[m[2]].balance)
         IN  Built(<<amount, date, balance>>,
                   [transaction_type |-> MPESA_AIRTIME,
                    reference |-> h.reference,
                    amount |-> amount.val,
                    phone |-> h.number,
                    date |-> date.val,
                    balance |-> balance.val,
                    transaction_cost |-> DecZero,
                    raw_text |-> sms_text])

_parse_bank_deposit(sms_text, match) ==
    LET toks == sms_text.toks
        m    == match
    IN  IF m = <<>> THEN NoMatch
        ELSE
         LET h       == toks[m[1]]
             amount  == _parse_amount(h.amount)
             date    == _parse_bank_date(toks[m[3]].date)
             balance == _parse_amount(toks[m[2]].balance)
         IN  Built(<<amount, date, balance>>,
                   [transaction_type |-> BANK_DEPOSIT,
                    reference |-> toks[m[3]].reference,
                    amount |-> amount.val,
                    bank |-> h.bank,
                    account |-> toks[m[2]].account,
                    date |-> date.val,
                    balance |-> balance.val,
                    raw_text |-> sms_text])

_parse_bank_withdrawal(sms_text, match) ==
    LET toks == sms_text.toks
        m    == match
    IN  IF m = <<>> THEN NoMatch
        ELSE
         LET h       == toks[m[1]]
             amount  == _parse_amount(h.amount)
             date    == _parse_bank_date(toks[m[3]].date)
             balance == _parse_amount(toks[m[2]].balance)
         IN  Built(<<amount, date, balance>>,
                   [transaction_type |-> BANK_WITHDRAWAL,
                    reference |-> toks[m[3]].reference,
                    amount |-> amount.val,
                    bank |-> h.bank,
                    account |-> toks[m[2]].account,
                    date |-> date.val,
                    balance |-> balance.val,
                    raw_text |-> sms_text])

_parse_bank_transfer(sms_text, match) ==
    LET toks == sms_text.toks
        m    == match
    IN  IF m = <<>> THEN NoMatch
        ELSE
         LET h       == toks[m[1]]
             amount  == _parse_amount(h.amount)
             date    == _parse_bank_date(toks[m[3]].date)
             balance == _parse_amount(toks[m[2]].balance)
         IN  Built(<<amount, date, balance>>,
                   [transaction_type |-> BANK_TRANSFER,
                    reference |-> toks[m[3]].reference,
                    amount |-> amount.val,
                    bank |-> h.bank,
                    recipient |-> h.party,
                    account |-> toks[m[2]].account,
                    date |-> date.val,
                    balance |-> balance.val,
                    raw_text |-> sms_text])

_parse_bank_debit(sms_text, match) ==
    LET toks == sms_text.toks
        m    == match
    IN  IF m = <<>> THEN NoMatch
        ELSE
         LET h       == toks[m[1]]
             amount  == _parse_amount(h.amount)
             date    == _parse_bank_date(h.date)
             balance == _parse_amount(toks[m[2]].balance)
         IN  Built(<<amount, date, balance>>,
                   [transaction_type |-> BANK_WITHDRAWAL,
                    reference |-> toks[m[3]].reference,
                    amount |-> amount.val,
                    bank |-> h.bank,
                    account |-> h.account,
                    date |-> date.val,
                    balance |-> balance.val,
                    raw_text |-> sms_text])

(***************************************************************************)
(* parse_sms: the dispatcher.                                              *)
(***************************************************************************)
\* A Python string, and a Python value that is no string (None, a number,
\* a list), of which only its truth value matters.
Str(lead, toks, trail) == [k |-> "str", lead |-> lead, toks |-> toks, trail |-> trail]
NonStr(truthy) == [k |-> "other", truthy |-> truthy]

\* "not sms_text": the empty string, and the falsy values of other types.
Falsy(x) ==
    IF x.k = "str" THEN x.lead = 0 /\ x.toks = <<>> /\ x.trail = 0
    ELSE ~x.truthy

\* isinstance(sms_text, str)
IsStr(x) == x.k = "str"

\* str.strip()
strip(x) == [x EXCEPT !.lead = 0, !.trail = 0]

\* The parsers listed in the order of transaction_types (deposit,
\* withdrawal, transfer) instead of most specific first.
parsers_in_type_order ==
    << [transaction_type |-> MPESA_RECEIVED,   parser_func |-> "_parse_mpesa_received"],
       [transaction_type |-> MPESA_SENT,       parser_func |-> "_parse_mpesa_sent"],
       [transaction_type |-> MPESA_PAYBILL,    parser_func |-> "_parse_mpesa_paybill"],
       [transaction_type |-> MPESA_TILL,       parser_func |-> "_parse_mpesa_till"],
       [transaction_type |-> MPESA_WITHDRAWAL, parser_func |-> "_parse_mpesa_withdrawal"],
       [transaction_type |-> MPESA_AIRTIME,    parser_func |-> "_parse_mpesa_airtime"],
       [transaction_type |-> BANK_DEPOSIT,     parser_func |-> "_parse_bank_deposit"],
       [transaction_type |-> BANK_WITHDRAWAL,  parser_func |-> "_parse_bank_withdrawal"],
       [transaction_type |-> BANK_WITHDRAWAL,  parser_func |-> "_parse_bank_debit"],
       [transaction_type |-> BANK_TRANSFER,    parser_func |-> "_parse_bank_transfer"] >>

\* The list of (transaction_type, parser_func) pairs parse_sms walks.
parsers ==
    << [transaction_type |-> MPESA_RECEIVED,   parser_func |-> "_parse_mpesa_received"],
       [transaction_type |-> MPESA_SENT,       parser_func |-> "_parse_mpesa_sent"],
       [transaction_type |-> MPESA_PAYBILL,    parser_func |-> "_parse_mpesa_paybill"],
       [transaction_type |-> MPESA_TILL,       parser_func |-> "_parse_mpesa_till"],
       [transaction_type |-> MPESA_WITHDRAWAL, parser_func |-> "_parse_mpesa_withdrawal"],
       [transaction_type |-> MPESA_AIRTIME,    parser_func |-> "_parse_mpesa_airtime"],
       [transaction_type |-> BANK_TRANSFER,    parser_func |-> "_parse_bank_transfer"],
       [transaction_type |-> BANK_DEPOSIT,     parser_func |-> "_parse_bank_deposit"],
       [transaction_type |-> BANK_WITHDRAWAL,  parser_func |-> "_parse_bank_withdrawal"],
       [transaction_type |-> BANK_WITHDRAWAL,  parser_func |-> "_parse_bank_debit"] >>

\* The body of parser function f once its pattern has been searched for:
\* match is what pattern.search(sms_text) returned.
ParserBody(f, sms_text, match) ==
    CASE f = "_parse_mpesa_received"   -> _parse_mpesa_received(sms_text, match)
      [] f = "_parse_mpesa_sent"       -> _parse_mpesa_sent(sms_text, match)
      [] f = "_parse_mpesa_paybill"    -> _parse_mpesa_paybill(sms_text, match)
      [] f = "_parse_mpesa_till"       -> _parse_mpesa_till(sms_text, match)
      [] f = "_parse_mpesa_withdrawal" -> _parse_mpesa_withdrawal(sms_text, match)
      [] f = "_parse_mpesa_airtime"    -> _parse_mpesa_airtime(sms_text, match)
      [] f = "_parse_bank_transfer"    -> _parse_bank_transfer(sms_text, match)
      [] f = "_parse_bank_deposit"     -> _parse_bank_deposit(sms_text, match)
      [] f = "_parse_bank_withdrawal"  -> _parse_bank_withdrawal(sms_text, match)
      [] f = "_parse_bank_debit"       -> _parse_bank_debit(sms_text, match)

\* parser_func(sms_text): the function searches the text for its own
\* pattern and goes on with the match.
CallParser(f, sms_text) == ParserBody(f, sms_text, Search(f, sms_text.toks))

(***************************************************************************)
(* The attributes of the parser object.                                    *)
(***************************************************************************)
\* The name of the attribute that holds the pattern of parser function f.
PatternAttr(f) ==
    CASE f = "_parse_mpesa_received"   -> "mpesa_received_pattern"
      [] f = "_parse_mpesa_sent"       -> "mpesa_sent_pattern"
      [] f = "_parse_mpesa_paybill"    -> "mpesa_paybill_pattern"
      [] f = "_parse_mpesa_till"       -> "mpesa_till_pattern"
      [] f = "_parse_mpesa_withdrawal" -> "mpesa_withdrawal_pattern"
      [] f = "_parse_mpesa_airtime"    -> "mpesa_airtime_pattern"
      [] f = "_parse_bank_transfer"    -> "bank_transfer_pattern"
      [] f = "_parse_bank_deposit"     -> "bank_deposit_pattern"
      [] f = "_parse_bank_withdrawal"  -> "bank_withdrawal_pattern"
      [] f = "_parse_bank_debit"       -> "bank_debit_pattern"

\* The parser functions.
ParserFuncs == {parsers[k].parser_func : k \in 1..Len(parsers)}

\* _compile_patterns: one compiled pattern for each attribute, given here
\* by the parser function whose chain of anchors it is and by the number
\* of its anchors.
_compile_patterns ==
    [a \in {PatternAttr(f) : f \in ParserFuncs} |->
        LET f == CHOOSE g \in ParserFuncs : PatternAttr(g) = a
        IN  [chain |-> f, anchors |-> NAnchors(f)]]

\* The constructor: the list of supported types, then the patterns.
__init__ ==
    /\ self_transaction_types = transaction_types
    /\ self_patterns = _compile_patterns

\* The names of the operations of the parser.
Operations ==
    {"parse_sms", "parse_bulk", "validate_parsed_data",
     "get_transaction_summary", "get_statistics"}

\* An operation that adds the type it was given to the list of supported
\* types.
SelfAfter_validator_appends(op) ==
    /\ self_patterns' = self_patterns
    /\ self_transaction_types' =
          IF op = "validate_parsed_data"
          THEN Append(self_transaction_types, "unknown")
          ELSE self_transaction_types

\* The attributes of the parser object after a call, or a step of a call,
\* of operation op: the operations read the patterns and the list of
\* supported types, and none of them assigns to an attribute, changes the
\* list in place or compiles a pattern again.
SelfAfter(op) ==
    /\ self_patterns' = self_patterns
    /\ self_transaction_types' = self_transaction_types

\* "except ValueError": a handler that lets decimal.InvalidOperation through.
CatchesValueErrorOnly(exc) == exc = "ValueError"

\* "except Exception": both decimal.InvalidOperation (an ArithmeticError)
\* and ValueError are subclasses of Exception.
Catches(exc) == exc \in {"InvalidOperation", "ValueError"}

\* The for loop of parse_sms from the i-th parser on.  attempted lists the
\* parser functions called so far; raised tells that an exception left
\* the call.
RECURSIVE TryParsers(_, _, _)
RECURSIVE AfterCall(_, _, _, _)

\* A variant in which an exception of a parser function ends the search.
AfterCall_fails_on_exception(sms_text, i, attempted, r) ==
    IF r.st = "ok"
    THEN [result |-> r.rec, attempted |-> attempted, raised |-> FALSE]
    ELSE IF r.st = "raise"
    THEN [result |-> None, attempted |-> attempted, raised |-> FALSE]
    ELSE TryParsers(sms_text, i + 1, attempted)

\* The rest of one pass of the loop: r is what the i-th parser function
\* returned or raised.
AfterCall(sms_text, i, attempted, r) ==
    IF r.st = "ok"
    THEN [result |-> r.rec, attempted |-> attempted, raised |-> FALSE]
    ELSE IF r.st = "raise" /\ ~Catches(r.exc)
    THEN [result |-> None, attempted |-> attempted, raised |-> TRUE]
    ELSE TryParsers(sms_text, i + 1, attempted)

TryParsers(sms_text, i, attempted) ==
    IF i > Len(parsers)
    THEN [result |-> None, attempted |-> attempted, raised |-> FALSE]
    ELSE AfterCall(sms_text, i, Append(attempted, parsers[i].parser_func),
                   CallParser(parsers[i].parser_func, sms_text))

\* parse_sms(sms_text): what it returns, the parser functions it called
\* and whether it raised.
parse_sms(x) ==
    IF Falsy(x) \/ ~IsStr(x)
    THEN [result |-> None, attempted |-> <<>>, raised |-> FALSE]
    ELSE TryParsers(strip(x), 1, <<>>)

(***************************************************************************)
(* The inputs the operations are applied to.                               *)
(***************************************************************************)
\* Captured amounts: each matches the slot [\d,]+\.?\d* of the patterns.
Amt_100_10   == <<"1", "0", "0", ".", "1", "0">>
Amt_200_20   == <<"2", "0", "0", ".", "2", "0">>
Amt_5991_87  == <<"5", ",", "9", "9", "1", ".", "8", "7">>
Amt_1234_5   == <<"1", ",", "2", "3", "4", ".", "5">>
Amt_Zero     == <<"0", ".", "0", "0">>
Amt_Commas   == <<",", ",">>
Amt_7_125    == <<"7", ".", "1", "2", "5">>
\* Captured balances: the slot -?[\d,]+\.?\d*.
Bal_Negative == <<"-", "3", "0", ",", "0", "0", "0", ".", "7", "0">>
Bal_Positive == <<"4", "5", ",", "6", "7", "8", ".", "9", "0">>
Cost_13      == <<"1", "3", ".", "0", "0">>

MpesaDate(dd, mm, yyyy) == [dd |-> dd, mm |-> mm, yyyy |-> yyyy]
MpesaTime(hh, mi, p) == [hh |-> hh, mi |-> mi, p |-> p]
BankDate(dd, mon, yyyy) == [dd |-> dd, mon |-> mon, yyyy |-> yyyy]

Y2025 == <<"2", "0", "2", "5">>
\* 26/08/2025 at 04:23 PM, 24/08/2025 at 10:01 AM
Date_26_08 == MpesaDate(<<"2", "6">>, <<"0", "8">>, Y2025)
Date_24_08 == MpesaDate(<<"2", "4">>, <<"0", "8">>, Y2025)
Time_04_23_PM == MpesaTime(<<"0", "4">>, <<"2", "3">>, "PM")
Time_10_01_AM == MpesaTime(<<"1", "0">>, <<"0", "1">>, "AM")
\* 31/02/2025 matches \d{2}/\d{2}/\d{4} and is no day of the calendar;
\* 13:05 PM matches \d{2}:\d{2}\s+(?:AM|PM) and is no 12-hour time.
Date_31_02 == MpesaDate(<<"3", "1">>, <<"0", "2">>, Y2025)
Time_13_05_PM == MpesaTime(<<"1", "3">>, <<"0", "5">>, "PM")
\* 01-Sep-2025, 11-Nov-2025, and 31-Feb-2025 and 01-Xyz-2025, which match
\* \d{2}-[A-Za-z]{3}-\d{4} and are no dates.
BDate_01_Sep == BankDate(<<"0", "1">>, "Sep", Y2025)
BDate_11_Nov == BankDate(<<"1", "1">>, "Nov", Y2025)
BDate_31_Feb == BankDate(<<"3", "1">>, "Feb", Y2025)
BDate_01_Xyz == BankDate(<<"0", "1">>, "Xyz", Y2025)

\* The amount, date and time a message is written with: well formed,
\* and with an amount, a date or an hour that no normalizer accepts.
MpesaGood == [amount |-> Amt_100_10, date |-> Date_26_08, time |-> Time_04_23_PM]
MpesaBadAmount == [amount |-> Amt_Commas, date |-> Date_26_08, time |-> Time_04_23_PM]

MpesaVariants ==
    { MpesaGood,
      [amount |-> Amt_200_20, date |-> Date_24_08, time |-> Time_10_01_AM],
      MpesaBadAmount,
      [amount |-> Amt_100_10, date |-> Date_31_02, time |-> Time_04_23_PM],
      [amount |-> Amt_Zero,   date |-> Date_24_08, time |-> Time_13_05_PM],
      [amount |-> Amt_7_125,  date |-> Date_26_08, time |-> Time_04_23_PM] }

BankGood == [amount |-> Amt_5991_87, date |-> BDate_01_Sep]
BankBadDate == [amount |-> Amt_5991_87, date |-> BDate_31_Feb]

BankVariants ==
    { BankGood,
      [amount |-> Amt_1234_5,  date |-> BDate_11_Nov],
      [amount |-> Amt_Commas,  date |-> BDate_01_Sep],
      BankBadDate,
      [amount |-> Amt_200_20,  date |-> BDate_01_Xyz] }

MpesaTemplates == {"received", "sent", "paybill", "till", "withdrawal", "airtime"}

\* The header of an M-Pesa message of template tpl, as the synthetic
\* generator writes it.
MpesaHeaderOf(tpl, v) ==
    CASE tpl = "received" ->
           MpesaHeader(tpl, "RB90VRG", v.amount, "STEPHEN WAMBUI", "254712531512",
                       v.date, v.time)
      [] tpl = "sent" ->
           MpesaHeader(tpl, "SG45KLM", v.amount, "JOHN DOE", "254700123456",
                       v.date, v.time)
      [] tpl = "paybill" ->
           MpesaHeader(tpl, "RF55KXW", v.amount, "RUBIS ENERGY", "560697",
                       v.date, v.time)
      [] tpl = "till" ->
           MpesaHeader(tpl, "TG29IVS", v.amount, "SHELL PETROL STATION", "060835",
                       v.date, v.time)
      [] tpl = "withdrawal" ->
           MpesaHeader(tpl, "HJ71DZN", v.amount, "SARAH MUGO", "254712216091",
                       v.date, v.time)
      [] tpl = "airtime" ->
           MpesaHeader(tpl, "KL21MUM", v.amount, "", "254756226688", v.date, v.time)

\* A whole M-Pesa message: header, balance clause, cost clause.  Received
\* and sent messages say "New M-PESA balance is", the others "New balance is".
MpesaMessage(tpl, v) ==
    << MpesaHeaderOf(tpl, v),
       BalanceClause(tpl \in {"received", "sent"}, Bal_Negative),
       CostClause(IF tpl \in {"sent", "withdrawal"} THEN Cost_13 ELSE Amt_Zero) >>

\* A whole bank message in the header form (Transfer, Deposit, Withdrawal).
BankMessage(tpl, v) ==
    << BankHeader(tpl, "Co-operative Bank", v.amount,
                  IF tpl = "Transfer" THEN "SAMUEL MWANGI" ELSE ""),
       AccBalanceClause("XXXX5678", Bal_Positive),
       RefClause("0354499106", v.date) >>

\* A whole bank message in the account form ("debited", "credited with").
BankAccMessage(verb, v) ==
    << BankAccHeader(verb, "KCB Bank", "XXXX5678", v.amount, v.date),
       BankBalanceClause(Bal_Negative),
       RefClause("7788990011", None) >>

\* The message generate_bank_sms writes for bank and trans_type.
GeneratorBankMessage(bank, trans_type, v) ==
    CASE trans_type = "deposit" ->
           << BankAccHeader("credited with", bank, "XXXX5678", v.amount, v.date),
              BankBalanceClause(Bal_Positive),
              RefClause("9756263761", None) >>
      [] trans_type = "withdrawal" ->
           << BankAccHeader("debited", bank, "XXXX5678", v.amount, v.date),
              BankBalanceClause(Bal_Positive),
              RefClause("9603905063", None) >>
      [] trans_type = "transfer" ->
           << BankHeader("Transfer", bank, v.amount, "STEPHEN MWANGI"),
              AccBalanceClause("XXXX5678", Bal_Positive),
              RefClause("6854516785", v.date) >>

\* Two of the names generate_bank_sms picks from.
GeneratorBanks == {"KCB", "Equity Bank"}

BankTemplates == {"Transfer", "Deposit", "Withdrawal"}

\* Whole messages of every template in every variant, and a message of
\* the "credited with" form the synthetic generator writes for deposits.
Messages ==
    {MpesaMessage(tpl, v) : tpl \in MpesaTemplates, v \in MpesaVariants}
    \cup {BankMessage(tpl, v) : tpl \in BankTemplates, v \in BankVariants}
    \cup {BankAccMessage("debited", v) : v \in BankVariants}
    \cup {BankAccMessage("credited with", BankGood)}
    \cup {GeneratorBankMessage(bank, trans_type, BankGood) :
             bank \in GeneratorBanks,
             trans_type \in {"deposit", "withdrawal", "transfer"}}

\* Pieces of messages, and text that is no message.
Fragments ==
    { <<Junk>>,
      <<MpesaHeaderOf("received", MpesaGood)>>,
      <<BalanceClause(TRUE, Bal_Positive)>>,
      <<CostClause(Amt_Zero)>> }

\* The pieces longer texts are put together from.
Segments ==
    {MpesaMessage(tpl, MpesaGood) : tpl \in MpesaTemplates}
    \cup {MpesaMessage("received", MpesaBadAmount)}
    \cup {BankMessage(tpl, BankGood) : tpl \in BankTemplates}
    \cup {BankAccMessage("debited", v) : v \in {BankGood, BankBadDate}}
    \cup Fragments

\* The largest number of segments in one text.
MaxSegs == 2

RECURSIVE Bodies(_)
Bodies(n) ==
    IF n = 0 THEN {<<>>}
    ELSE LET shorter == Bodies(n - 1)
         IN  shorter \cup {b \o seg : b \in shorter, seg \in Segments}

\* The strings: one whole message, or up to MaxSegs segments, with or
\* without leading and trailing whitespace (the whitespace-only string is
\* written with leading whitespace).
Texts ==
    {Str(lead, b, trail) : lead \in {0, 1}, trail \in {0, 1},
                           b \in Messages \cup Bodies(MaxSegs)}
    \ {Str(lead, <<>>, 1) : lead \in {0, 1}}

\* The values that are no strings: a falsy one (None, 0) and a truthy one.
NonStrings == {NonStr(FALSE), NonStr(TRUE)}

Inputs == Texts \cup NonStrings

(***************************************************************************)
(* parse_bulk and get_statistics.                                          *)
(***************************************************************************)
\* sms_text[:100], kept as the text it is a prefix of.
First100(sms_text) == [prefix_of |-> sms_text, chars |-> 100]

\* The entry numbered from 1, as enumerate(sms_list, 1) would number it.
BulkEntryFromOne(i, sms_text, parsed) ==
    IF parsed # None
    THEN parsed @@ ("sms_index" :> (i + 1))
    ELSE [sms_index |-> i + 1, error |-> "Failed to parse SMS",
          original_text |-> First100(sms_text)]

\* The entry parse_bulk appends for the message at (0-based) index i, of
\* which parse_sms returned parsed.
BulkEntry(i, sms_text, parsed) ==
    IF parsed # None
    THEN parsed @@ ("sms_index" :> i)
    ELSE [sms_index |-> i, error |-> "Failed to parse SMS",
          original_text |-> First100(sms_text)]

\* The for loop of parse_bulk over enumerate(sms_list), from the message
\* at 0-based index i on, appending to acc.
RECURSIVE BulkLoop(_, _, _)
RECURSIVE BulkLoopStopAtFailure(_, _, _)

\* A loop that ends the batch at the first message that fails to parse.
BulkLoopStopAtFailure(list, i, acc) ==
    IF i >= Len(list) THEN acc
    ELSE LET entry == BulkEntry(i, list[i + 1], parse_sms(list[i + 1]).result)
         IN  IF "error" \in DOMAIN entry THEN Append(acc, entry)
             ELSE BulkLoopStopAtFailure(list, i + 1, Append(acc, entry))

BulkLoop(list, i, acc) ==
    IF i >= Len(list) THEN acc
    ELSE BulkLoop(list, i + 1,
                  Append(acc, BulkEntry(i, list[i + 1], parse_sms(list[i + 1]).result)))

parse_bulk(list) == BulkLoop(list, 0, <<>>)

\* A lookup that always answers the default.
GetDefault(d, key, default) == default

\* dict.get(key, default)
Get(d, key, default) == IF key \in DOMAIN d THEN d[key] ELSE default

\* d[key] = value
Put(d, key, value) == [x \in DOMAIN d \cup {key} |-> IF x = key THEN value ELSE d[x]]

\* The body of the loop without the "continue" of the error branch: a
\* failed entry is counted as failed and then handled as a success too.
StatsStepNoContinue(st, parsed) ==
    LET st1 == IF "error" \in DOMAIN parsed
               THEN [st EXCEPT !.failed_parses = @ + 1] ELSE st
        trans_type == Get(parsed, "transaction_type", "unknown")
    IN  [st1 EXCEPT
           !.successful_parses = @ + 1,
           !.total_amount = IF "amount" \in DOMAIN parsed
                            THEN DecAdd(@, parsed.amount) ELSE @,
           !.transaction_type_counts =
               Put(@, trans_type, Get(@, trans_type, 0) + 1)]

\* The body of the loop with an error branch that only skips the entry.
StatsStepDropFailed(st, parsed) ==
    IF "error" \in DOMAIN parsed THEN st
    ELSE [st EXCEPT
            !.successful_parses = @ + 1,
            !.total_amount = IF "amount" \in DOMAIN parsed
                             THEN DecAdd(@, parsed.amount) ELSE @]

\* One pass of the body of the for loop of get_statistics.
StatsStep(st, parsed) ==
    IF "error" \in DOMAIN parsed
    THEN [st EXCEPT !.failed_parses = @ + 1]
    ELSE
      LET trans_type == Get(parsed, "transaction_type", "unknown")
          total == IF "amount" \in DOMAIN parsed
                   THEN DecAdd(st.total_amount, parsed.amount)
                   ELSE st.total_amount
          earliest ==
              IF "date" \in DOMAIN parsed
                 /\ (st.date_range.earliest = None
                     \/ DtLess(parsed.date, st.date_range.earliest))
              THEN parsed.date ELSE st.date_range.earliest
          latest ==
              IF "date" \in DOMAIN parsed
                 /\ (st.date_range.latest = None
                     \/ DtLess(st.date_range.latest, parsed.date))
              THEN parsed.date ELSE st.date_range.latest
      IN  [st EXCEPT
             !.successful_parses = @ + 1,
             !.total_amount = total,
             !.transaction_type_counts =
                 Put(@, trans_type, Get(@, trans_type, 0) + 1),
             !.date_range = [earliest |-> earliest, latest |-> latest]]

RECURSIVE StatsLoop(_, _, _)
StatsLoop(list, i, st) ==
    IF i > Len(list) THEN st
    ELSE StatsLoop(list, i + 1, StatsStep(st, list[i]))

get_statistics(list) ==
    StatsLoop(list, 1,
              [total_transactions |-> Len(list),
               successful_parses |-> 0,
               failed_parses |-> 0,
               total_amount |-> DecZero,
               transaction_type_counts |-> <<>>,
               date_range |-> [earliest |-> None, latest |-> None]])

\* The messages batches are made of: successes of several kinds, amounts
\* and dates, and failures of every sort.
BatchTexts ==
    { Str(0, MpesaMessage("received", [amount |-> Amt_100_10, date |-> Date_26_08,
                                       time |-> Time_04_23_PM]), 0),
      Str(0, MpesaMessage("sent", [amount |-> Amt_200_20, date |-> Date_24_08,
                                   time |-> Time_10_01_AM]), 1),
      Str(1, MpesaMessage("received", [amount |-> Amt_200_20, date |-> Date_24_08,
                                       time |-> Time_10_01_AM]), 0),
      Str(0, BankMessage("Transfer", [amount |-> Amt_5991_87, date |-> BDate_01_Sep]), 0),
      Str(0, BankAccMessage("debited", [amount |-> Amt_1234_5, date |-> BDate_11_Nov]), 0),
      Str(0, MpesaMessage("paybill", [amount |-> Amt_Commas, date |-> Date_26_08,
                                      time |-> Time_04_23_PM]), 0),
      Str(0, <<Junk>>, 0),
      Str(0, <<>>, 0) }

\* The largest number of messages in one batch.
MaxBatch == 3

RECURSIVE Batches(_)
Batches(n) ==
    IF n = 0 THEN {<<>>}
    ELSE LET shorter == Batches(n - 1)
         IN  shorter \cup {Append(b, t) : b \in shorter, t \in BatchTexts}

(***************************************************************************)
(* validate_parsed_data.  now is the value datetime.now() returns inside   *)
(* the call, to the minute.                                                *)
(***************************************************************************)
required_fields == <<"transaction_type", "amount", "reference", "date", "balance">>

\* "Missing required field: ..." for every required field the dictionary
\* lacks, in the order of required_fields.
RECURSIVE MissingFields(_, _)
MissingFields(parsed_data, i) ==
    IF i > Len(required_fields) THEN <<>>
    ELSE (IF required_fields[i] \in DOMAIN parsed_data THEN <<>>
          ELSE <<[msg |-> "Missing required field", value |-> required_fields[i]]>>)
         \o MissingFields(parsed_data, i + 1)

\* An amount check that lets zero through: "amount < 0".
AmountIsBad_negative_only(amount) == amount.coef < 0

\* parsed_data['amount'] <= 0
AmountIsBad(amount) == amount.coef <= 0

\* The list of errors of a dictionary that is neither empty nor an error
\* entry, in the order the checks append them.
ValidationErrors(parsed_data, now) ==
    MissingFields(parsed_data, 1)
    \o (IF "amount" \in DOMAIN parsed_data /\ AmountIsBad(parsed_data.amount)
        THEN <<[msg |-> "Invalid amount", value |-> parsed_data.amount]>> ELSE <<>>)
    \o (IF "date" \in DOMAIN parsed_data /\ DtLess(now, parsed_data.date)
        THEN <<[msg |-> "Transaction date is in the future",
                value |-> parsed_data.date]>> ELSE <<>>)
    \o (IF "transaction_type" \in DOMAIN parsed_data
           /\ \A k \in 1..Len(transaction_types) :
                 transaction_types[k] # parsed_data.transaction_type
        THEN <<[msg |-> "Invalid transaction type",
                value |-> parsed_data.transaction_type]>> ELSE <<>>)

\* The tuple (is_valid, list_of_errors) from the list of errors.
Verdict(errors) == [is_valid |-> Len(errors) = 0, errors |-> errors]

validate_parsed_data(parsed_data, now) ==
    IF parsed_data = None \/ DOMAIN parsed_data = {}
    THEN [is_valid |-> FALSE, errors |-> <<[msg |-> "No data to validate"]>>]
    ELSE IF "error" \in DOMAIN parsed_data
    THEN [is_valid |-> FALSE, errors |-> <<[msg |-> parsed_data.error]>>]
    ELSE Verdict(ValidationErrors(parsed_data, now))

(***************************************************************************)
(* The summary of a parsed transaction.                                    *)
(***************************************************************************)
\* format(amount, ',.2f') of a Decimal that is not negative: the number
\* of hundredths nearest to it, a tie going to the even one, written as
\* the whole part and two fractional digits.
Format_2f(amount) ==
    LET q == IF amount.exp <= 2 THEN 1 ELSE Pow10(amount.exp - 2)
        down == IF amount.exp <= 2 THEN amount.coef * Pow10(2 - amount.exp)
                ELSE amount.coef \div q
        rest == IF amount.exp <= 2 THEN 0 ELSE amount.coef % q
        up == \/ 2 * rest > q
              \/ 2 * rest = q /\ down % 2 = 1
        hundredths == IF up THEN down + 1 ELSE down
    IN  [whole |-> hundredths \div 100, frac |-> hundredths % 100]

\* date.strftime('%d/%m/%Y')
strftime_dmY(date) == [dd |-> date.day, mm |-> date.month, yyyy |-> date.year]

\* The text "<verb> KES <amount> <prep> <party> [via <via>] [(<tag>)] on
\* <date>"; None stands for a part the text leaves out.
SummaryText(verb, amount, party, via, tag, date) ==
    [verb |-> verb, amount |-> Format_2f(amount), party |-> party, via |-> via,
     tag |-> tag, date |-> strftime_dmY(date)]

FailedToParse == [failed |-> "Failed to parse transaction"]

get_transaction_summary(parsed_data) ==
    IF parsed_data = None \/ DOMAIN parsed_data = {} \/ "error" \in DOMAIN parsed_data
    THEN FailedToParse
    ELSE LET trans_type == parsed_data.transaction_type
             amount == parsed_data.amount
             date == parsed_data.date
         IN  CASE trans_type = MPESA_RECEIVED ->
                    SummaryText("Received", amount, parsed_data.sender, None, None, date)
               [] trans_type = MPESA_SENT ->
                    SummaryText("Sent", amount, parsed_data.recipient, None, None, date)
               [] trans_type = MPESA_PAYBILL ->
                    SummaryText("Paid", amount, parsed_data.merchant, None, "Paybill", date)
               [] trans_type = MPESA_TILL ->
                    SummaryText("Paid", amount, parsed_data.merchant, None, "Till", date)
               [] trans_type = MPESA_WITHDRAWAL ->
                    SummaryText("Withdrew", amount, "agent", None, None, date)
               [] trans_type = MPESA_AIRTIME ->
                    SummaryText("Bought", amount, "airtime", None, None, date)
               [] trans_type = BANK_DEPOSIT ->
                    SummaryText("Deposited", amount, parsed_data.bank, None, None, date)
               [] trans_type = BANK_WITHDRAWAL ->
                    SummaryText("Withdrew", amount, parsed_data.bank, None, None, date)
               [] trans_type = BANK_TRANSFER ->
                    SummaryText("Transferred", amount, parsed_data.recipient,
                                parsed_data.bank, None, date)
               [] OTHER ->
                    SummaryText("Transaction of", amount, None, None, None, date)

(***************************************************************************)
(* Callers that share one parser (the module-level sms_parser of the       *)
(* backend) and the system clock.  A frame holds what one call keeps in    *)
(* its local variables.                                                    *)
(***************************************************************************)
\* The largest number of callers at work at one time.
MaxCallers == 2

Callers == 1..MaxCallers

\* Two readings of the system clock: 01/08/2025 09:00, before the date of
\* every message, and 01/12/2025 09:00, after all of them.
Clock_2025_08_01 == [year |-> 2025, month |-> 8, day |-> 1, hour |-> 9, minute |-> 0]
Clock_2025_12_01 == [year |-> 2025, month |-> 12, day |-> 1, hour |-> 9, minute |-> 0]
SystemTimes == {Clock_2025_08_01, Clock_2025_12_01}

IdleFrame ==
    [pc |-> "idle", op |-> "", arg |-> None, sms_text |-> None, i |-> 0,
     attempted |-> <<>>, now |-> None, out |-> None]

\* A message whose amount is 0.00, and texts made with it.
MpesaZeroAmount == [amount |-> Amt_Zero, date |-> Date_24_08, time |-> Time_10_01_AM]
SentZeroText == Str(1, MpesaMessage("sent", MpesaZeroAmount), 0)
ReceivedText == Str(0, MpesaMessage("received", MpesaGood), 0)

\* What the callers hand to parse_sms: a sent message of amount 0.00 with
\* leading whitespace, a sent message behind a received one whose amount
\* is no number, a paybill message, and a value that is no string.
SharedInputs ==
    { SentZeroText,
      Str(0, MpesaMessage("received", MpesaBadAmount)
             \o MpesaMessage("sent", MpesaGood), 0),
      Str(0, MpesaMessage("paybill", MpesaGood), 1),
      NonStr(FALSE) }

\* What the callers hand to validate_parsed_data: the backend validates
\* the dictionary parse_sms returned.
ValidatorInputs ==
    { parse_sms(SentZeroText).result,
      parse_sms(ReceivedText).result,
      parse_sms(Str(0, BankMessage("Transfer", BankGood), 0)).result,
      None }

\* What the callers hand to get_transaction_summary: a dictionary
\* parse_sms returned (here one whose amount has three fractional digits),
\* or the None it returned.
SummaryInputs ==
    { parse_sms(Str(0, MpesaMessage("received",
          [amount |-> Amt_7_125, date |-> Date_26_08, time |-> Time_04_23_PM]), 0)).result,
      parse_sms(Str(0, BankMessage("Transfer", BankGood), 0)).result,
      None }

\* What the callers hand to parse_bulk.
SharedBatches == { <<ReceivedText>>, <<SentZeroText, Str(0, <<Junk>>, 0)>> }

(***************************************************************************)
(* The state machine: a caller holds one parser and calls its operations   *)
(* one after the other; get_statistics is given the list parse_bulk        *)
(* returned, as the bulk endpoint does.                                    *)
(***************************************************************************)
Init ==
    /\ pc = "idle"
    /\ sms_in = None
    /\ sms_out = None
    /\ sms_list = None
    /\ results = None
    /\ parsed_list = None
    /\ stats = None
    /\ clock = Clock_2025_12_01
    /\ frames = [c \in Callers |-> IdleFrame]
    /\ __init__
    /\ OthersIdle

ParseSmsCall ==
    /\ pc = "idle"
    /\ \E x \in Inputs :
         /\ sms_in' = x
         /\ sms_out' = parse_sms(x)
    /\ pc' = "parse_sms_done"
    /\ sms_list' = None
    /\ results' = None
    /\ parsed_list' = None
    /\ stats' = None
    /\ UNCHANGED <<clock, frames>>
    /\ SelfAfter("parse_sms")
    /\ UNCHANGED otherVars

ParseBulkCall ==
    /\ pc = "idle"
    /\ \E list \in Batches(MaxBatch) :
         /\ sms_list' = list
         /\ results' = parse_bulk(list)
    /\ pc' = "parse_bulk_done"
    /\ sms_in' = None
    /\ sms_out' = None
    /\ parsed_list' = None
    /\ stats' = None
    /\ UNCHANGED <<clock, frames>>
    /\ SelfAfter("parse_bulk")
    /\ UNCHANGED otherVars

GetStatisticsCall ==
    /\ pc = "parse_bulk_done"
    /\ parsed_list' = results
    /\ stats' = get_statistics(results)
    /\ pc' = "get_statistics_done"
    /\ UNCHANGED <<sms_in, sms_out, sms_list, results, clock, frames>>
    /\ SelfAfter("get_statistics")
    /\ UNCHANGED otherVars

\* The caller has taken the value returned and is ready for its next call.
Return ==
    /\ pc \in {"parse_sms_done", "parse_bulk_done", "get_statistics_done"}
    /\ pc' = "idle"
    /\ sms_in' = None
    /\ sms_out' = None
    /\ sms_list' = None
    /\ results' = None
    /\ parsed_list' = None
    /\ stats' = None
    /\ UNCHANGED <<clock, frames>>
    /\ UNCHANGED registryVars
    /\ UNCHANGED otherVars

Next == ParseSmsCall \/ ParseBulkCall \/ GetStatisticsCall \/ Return

Spec == Init /\ [][Next]_vars

(***************************************************************************)
(* The shared parser: every caller calls the operations of the one parser  *)
(* whenever it likes, parse_sms goes through its loop one parser function  *)
(* at a time, and the system clock moves between any two steps.            *)
(***************************************************************************)
\* The local variables of a call (sms_text, the position in the loop), kept
\* in one place for all callers: every caller reads those of the caller in
\* the loop that has the lowest number.
LocalsOfLowestInLoop(c) ==
    frames[CHOOSE d \in Callers :
              /\ frames[d].pc = "loop"
              /\ \A e \in Callers : frames[e].pc = "loop" => d <= e]

\* The local variables of the call caller c is in.
Locals(c) == frames[c]

SharedInit ==
    /\ pc = "idle"
    /\ sms_in = None
    /\ sms_out = None
    /\ sms_list = None
    /\ results = None
    /\ parsed_list = None
    /\ stats = None
    /\ clock \in SystemTimes
    /\ frames = [c \in Callers |-> IdleFrame]
    /\ __init__
    /\ OthersIdle

\* The frame of a call that has returned out.
Done(fr, out) == [fr EXCEPT !.pc = "done", !.out = out]

\* parse_sms up to its loop: the check of the argument and the strip.
EnterParseSms(x) ==
    IF Falsy(x) \/ ~IsStr(x)
    THEN Done([IdleFrame EXCEPT !.op = "parse_sms", !.arg = x],
              [result |-> None, attempted |-> <<>>, raised |-> FALSE])
    ELSE [IdleFrame EXCEPT !.op = "parse_sms", !.arg = x, !.pc = "loop",
                           !.sms_text = strip(x), !.i = 1]

\* One pass of the loop, given what the parser function returned or
\* raised: attempted already lists the function.
LoopPass(fr, i, attempted, r) ==
    IF r.st = "ok"
    THEN Done([fr EXCEPT !.attempted = attempted],
              [result |-> r.rec, attempted |-> attempted, raised |-> FALSE])
    ELSE IF r.st = "raise" /\ ~Catches(r.exc)
    THEN Done([fr EXCEPT !.attempted = attempted],
              [result |-> None, attempted |-> attempted, raised |-> TRUE])
    ELSE [fr EXCEPT !.attempted = attempted, !.i = i + 1]

\* The next step of the call of frame fr, whose local variables are loc.
LoopStep(fr, loc) ==
    IF loc.i > Len(parsers)
    THEN Done(fr, [result |-> None, attempted |-> loc.attempted, raised |-> FALSE])
    ELSE LoopPass(fr, loc.i, Append(loc.attempted, parsers[loc.i].parser_func),
                  CallParser(parsers[loc.i].parser_func, loc.sms_text))

Tick ==
    /\ clock' \in SystemTimes \ {clock}
    /\ UNCHANGED <<pc, sms_in, sms_out, sms_list, results, parsed_list, stats, frames>>
    /\ UNCHANGED registryVars
    /\ UNCHANGED otherVars

CallParseSms(c) ==
    /\ frames[c].pc = "idle"
    /\ \E x \in SharedInputs : frames' = [frames EXCEPT ![c] = EnterParseSms(x)]
    /\ UNCHANGED <<pc, sms_in, sms_out, sms_list, results, parsed_list, stats, clock>>
    /\ SelfAfter("parse_sms")
    /\ UNCHANGED otherVars

TryParser(c) ==
    /\ frames[c].pc = "loop"
    /\ frames' = [frames EXCEPT ![c] = LoopStep(frames[c], Locals(c))]
    /\ UNCHANGED <<pc, sms_in, sms_out, sms_list, results, parsed_list, stats, clock>>
    /\ SelfAfter("parse_sms")
    /\ UNCHANGED otherVars

CallValidate(c) ==
    /\ frames[c].pc = "idle"
    /\ \E parsed_data \in ValidatorInputs :
         frames' = [frames EXCEPT ![c] =
                      Done([IdleFrame EXCEPT !.op = "validate_parsed_data",
                                             !.arg = parsed_data, !.now = clock],
                           validate_parsed_data(parsed_data, clock))]
    /\ UNCHANGED <<pc, sms_in, sms_out, sms_list, results, parsed_list, stats, clock>>
    /\ SelfAfter("validate_parsed_data")
    /\ UNCHANGED otherVars

CallParseBulk(c) ==
    /\ frames[c].pc = "idle"
    /\ \E list \in SharedBatches :
         frames' = [frames EXCEPT ![c] =
                      Done([IdleFrame EXCEPT !.op = "parse_bulk", !.arg = list],
                           parse_bulk(list))]
    /\ UNCHANGED <<pc, sms_in, sms_out, sms_list, results, parsed_list, stats, clock>>
    /\ SelfAfter("parse_bulk")
    /\ UNCHANGED otherVars

CallGetStatistics(c) ==
    /\ frames[c].pc = "idle"
    /\ \E list \in SharedBatches :
         frames' = [frames EXCEPT ![c] =
                      Done([IdleFrame EXCEPT !.op = "get_statistics", !.arg = list],
                           get_statistics(parse_bulk(list)))]
    /\ UNCHANGED <<pc, sms_in, sms_out, sms_list, results, parsed_list, stats, clock>>
    /\ SelfAfter("get_statistics")
    /\ UNCHANGED otherVars

CallGetTransactionSummary(c) ==
    /\ frames[c].pc = "idle"
    /\ \E parsed_data \in SummaryInputs :
         frames' = [frames EXCEPT ![c] =
                      Done([IdleFrame EXCEPT !.op = "get_transaction_summary",
                                             !.arg = parsed_data],
                           get_transaction_summary(parsed_data))]
    /\ UNCHANGED <<pc, sms_in, sms_out, sms_list, results, parsed_list, stats, clock>>
    /\ SelfAfter("get_transaction_summary")
    /\ UNCHANGED otherVars

\* The caller takes what its call returned.
ReturnTo(c) ==
    /\ frames[c].pc = "done"
    /\ frames' = [frames EXCEPT ![c] = IdleFrame]
    /\ UNCHANGED <<pc, sms_in, sms_out, sms_list, results, parsed_list, stats, clock>>
    /\ UNCHANGED registryVars
    /\ UNCHANGED otherVars

SharedNext ==
    \/ Tick
    \/ \E c \in Callers :
         \/ CallParseSms(c)
         \/ TryParser(c)
         \/ CallValidate(c)
         \/ CallParseBulk(c)
         \/ CallGetStatistics(c)
         \/ CallGetTransactionSummary(c)
         \/ ReturnTo(c)

SharedSpec == SharedInit /\ [][SharedNext]_vars

(***************************************************************************)
(* Properties of the dispatcher.                                           *)
(***************************************************************************)
\* The priority order the specification gives: received, sent, paybill,
\* till, withdrawal, airtime, bank transfer, bank deposit, bank
\* withdrawal, bank debit.
PriorityOrder ==
    << "_parse_mpesa_received", "_parse_mpesa_sent", "_parse_mpesa_paybill",
       "_parse_mpesa_till", "_parse_mpesa_withdrawal", "_parse_mpesa_airtime",
       "_parse_bank_transfer", "_parse_bank_deposit", "_parse_bank_withdrawal",
       "_parse_bank_debit" >>

\* The template of parser f succeeds on a text: its pattern matches and
\* every field normalizes.
Succeeds(f, text) == CallParser(f, text).st = "ok"

\* The positions in the priority order of the templates that succeed.
Winners(text) == {i \in 1..Len(PriorityOrder) : Succeeds(PriorityOrder[i], text)}

Least(S) == CHOOSE i \in S : \A j \in S : i <= j

ParseSmsDone == pc = "parse_sms_done"

\* C1: for every non-empty text parse_sms calls the templates in the
\* priority order, up to and including the first one that succeeds, and
\* returns the extraction of that one; when none succeeds it has called
\* all ten and returns None.
C1_FirstMatchWins ==
    (ParseSmsDone /\ IsStr(sms_in) /\ ~Falsy(sms_in)) =>
        LET text == strip(sms_in)
            W    == Winners(text)
        IN  IF W = {}
            THEN /\ sms_out.result = None
                 /\ sms_out.attempted = PriorityOrder
            ELSE /\ sms_out.result = CallParser(PriorityOrder[Least(W)], text).rec
                 /\ sms_out.attempted = SubSeq(PriorityOrder, 1, Least(W))

\* A text that begins with a sent message and also holds a received
\* message, both well formed: the received template, earlier in the
\* order, wins.
C1_Witness ==
    /\ ParseSmsDone /\ IsStr(sms_in) /\ ~Falsy(sms_in)
    /\ {1, 2} \subseteq Winners(strip(sms_in))
    /\ sms_in.toks[1].k = "mpesa" /\ sms_in.toks[1].tpl = "sent"
    /\ sms_out.result # None
    /\ sms_out.result.transaction_type = MPESA_RECEIVED

\* The empty string and the strings of whitespace only.
Blank(x) == IsStr(x) /\ x.toks = <<>>

\* C2: for the empty string and every whitespace-only string parse_sms
\* fails without calling any template.
C2_BlankShortCircuits ==
    (ParseSmsDone /\ Blank(sms_in)) =>
        /\ sms_out.result = None
        /\ sms_out.attempted = <<>>

\* C3: parse_sms never raises, whatever the input, and returns None when
\* no template succeeds.
C3_NeverRaises ==
    ParseSmsDone =>
        /\ ~sms_out.raised
        /\ (~IsStr(sms_in) \/ Winners(strip(sms_in)) = {}) => sms_out.result = None

\* A text whose pattern matches and whose amount is no number: the
\* normalizer raised inside a template, and parse_sms returned None.
C3_Witness ==
    /\ ParseSmsDone /\ IsStr(sms_in)
    /\ \E i \in 1..Len(parsers) :
         LET r == CallParser(parsers[i].parser_func, strip(sms_in))
         IN  r.st = "raise" /\ r.exc = "InvalidOperation"
    /\ sms_out.result = None
    /\ ~sms_out.raised

(***************************************************************************)
(* Properties of parse_bulk.                                               *)
(***************************************************************************)
\* parse_bulk has returned (and get_statistics may have run on its list).
BulkDone == pc \in {"parse_bulk_done", "get_statistics_done"}

Failed(entry) == "error" \in DOMAIN entry

\* The text an entry was made from: the prefix kept by a failed entry is
\* a prefix of it, the raw_text of a success is it without the whitespace
\* around it.
MadeFrom(entry, sms_text) ==
    IF Failed(entry) THEN entry.original_text.prefix_of = sms_text
    ELSE entry.raw_text = strip(sms_text)

\* C4: parse_bulk returns one entry per input string, in input order: the
\* entry at position i was made from texts[i] and carries sms_index = i
\* (counted from 0), whatever mix of successes and failures there is.
C4_OrderPreserved ==
    BulkDone =>
        /\ Len(results) = Len(sms_list)
        /\ \A i \in 1..Len(sms_list) :
             /\ results[i].sms_index = i - 1
             /\ MadeFrom(results[i], sms_list[i])

\* A batch of three whose second message fails and whose others succeed.
C4_Witness ==
    /\ BulkDone
    /\ Len(sms_list) = 3
    /\ ~Failed(results[1]) /\ Failed(results[2]) /\ ~Failed(results[3])
    /\ results[3].sms_index = 2

\* A dictionary without its sms_index.
WithoutIndex(entry) == [key \in (DOMAIN entry) \ {"sms_index"} |-> entry[key]]

\* C5: the entry at position i is, but for sms_index, what parse_sms
\* returns for texts[i] alone (a failure where it returns None), so no
\* message ends the batch or changes the outcome of another.
C5_FailureIsolated ==
    BulkDone =>
        /\ Len(results) = Len(sms_list)
        /\ \A i \in 1..Len(results) :
             LET alone == parse_sms(sms_list[i]).result
             IN  IF alone = None THEN Failed(results[i])
                 ELSE ~Failed(results[i]) /\ WithoutIndex(results[i]) = alone

\* A batch whose first message fails and whose last message succeeds.
C5_Witness ==
    /\ BulkDone
    /\ Len(sms_list) >= 2
    /\ Failed(results[1])
    /\ ~Failed(results[Len(results)])
    /\ WithoutIndex(results[Len(results)]) = parse_sms(sms_list[Len(sms_list)]).result

(***************************************************************************)
(* Properties of get_statistics, applied to the list parse_bulk returned   *)
(* for sms_list.                                                           *)
(***************************************************************************)
StatsDone == pc = "get_statistics_done"

\* The positions of the messages parse_sms succeeds on, and fails on.
Successes(list) == {i \in 1..Len(list) : parse_sms(list[i]).result # None}
Failures(list) == {i \in 1..Len(list) : parse_sms(list[i]).result = None}

AmountOf(sms_text) == parse_sms(sms_text).result.amount
DateOf(sms_text) == parse_sms(sms_text).result.date
KindOf(sms_text) == parse_sms(sms_text).result.transaction_type

\* The largest number of fractional digits among the amounts at positions S.
MaxExp(list, S) ==
    IF S = {} THEN 0
    ELSE LET e == {AmountOf(list[i]).exp : i \in S}
         IN  CHOOSE x \in e : \A y \in e : y <= x

\* The sum of the amounts at positions S, counted in units of 10^-scale.
RECURSIVE SumScaled(_, _, _)
SumScaled(list, S, scale) ==
    IF S = {} THEN 0
    ELSE LET i == CHOOSE j \in S : TRUE
             a == AmountOf(list[i])
         IN  a.coef * Pow10(scale - a.exp) + SumScaled(list, S \ {i}, scale)

C7_CountsAddUp ==
    StatsDone =>
        /\ stats.total_transactions = Len(sms_list)
        /\ stats.successful_parses + stats.failed_parses = stats.total_transactions
        /\ stats.successful_parses = Cardinality(Successes(sms_list))
        /\ stats.failed_parses = Cardinality(Failures(sms_list))

\* Three messages, the second of them garbage: 2 successes and 1 failure.
C7_Witness ==
    /\ StatsDone
    /\ Len(sms_list) = 3
    /\ sms_list[2].toks = <<Junk>>
    /\ stats.successful_parses = 2
    /\ stats.failed_parses = 1

RECURSIVE SumCounts(_, _)
SumCounts(counts, keys) ==
    IF keys = {} THEN 0
    ELSE LET key == CHOOSE x \in keys : TRUE
         IN  counts[key] + SumCounts(counts, keys \ {key})

\* C8: transaction_type_counts has a key exactly for the kinds of the
\* successful messages, each count is the number of successful messages
\* of that kind, and the counts add up to successful_parses.
C8_CountsByKind ==
    StatsDone =>
        LET counts == stats.transaction_type_counts
            S      == Successes(sms_list)
        IN  /\ DOMAIN counts = {KindOf(sms_list[i]) : i \in S}
            /\ \A kind \in DOMAIN counts :
                 counts[kind] = Cardinality({i \in S : KindOf(sms_list[i]) = kind})
            /\ SumCounts(counts, DOMAIN counts) = stats.successful_parses

\* Two received messages, and a failure: received is counted twice and no
\* other kind has a key.
C8_Witness ==
    /\ StatsDone
    /\ Failures(sms_list) # {}
    /\ DOMAIN stats.transaction_type_counts = {MPESA_RECEIVED}
    /\ stats.transaction_type_counts[MPESA_RECEIVED] = 2

\* A field of the statistics that is missing or None.
Absent(d, key) == key \notin DOMAIN d \/ d[key] = None

\* C9 as stated: when every message fails, the statistics have a zero
\* successful count, no amount field and no date-range fields.
C9_NoAmountField ==
    (StatsDone /\ Successes(sms_list) = {}) =>
        /\ stats.successful_parses = 0
        /\ Absent(stats, "total_amount")
        /\ Absent(stats.date_range, "earliest")
        /\ Absent(stats.date_range, "latest")

\* C9 as amended: when every message fails (also for the empty batch)
\* get_statistics returns a zero successful count, a total_amount of
\* Decimal('0.00'), no kind counts, and a date range whose earliest and
\* latest are None.
C9_AllFailedIsDegenerate ==
    (StatsDone /\ Successes(sms_list) = {}) =>
        /\ stats.successful_parses = 0
        /\ stats.failed_parses = Len(sms_list)
        /\ stats.total_amount = DecZero
        /\ DOMAIN stats.transaction_type_counts = {}
        /\ stats.date_range = [earliest |-> None, latest |-> None]

\* A batch of garbage, an empty string and a message whose amount is no
\* number.
C9_Witness ==
    /\ StatsDone
    /\ Len(sms_list) = 3
    /\ Successes(sms_list) = {}
    /\ \E i \in 1..3 : sms_list[i].toks = <<>>
    /\ \E i \in 1..3 : Len(sms_list[i].toks) = 3
    /\ stats.failed_parses = 3

\* The minutes a datetime stands at, counting every month as 31 days.
Minutes(t) == (((t.year * 12 + t.month) * 31 + t.day) * 24 + t.hour) * 60 + t.minute

\* C10: with a success in the batch, earliest and latest are the least
\* and the greatest date of the successful messages; with none, both are
\* None.
C10_DateRange ==
    StatsDone =>
        LET S     == Successes(sms_list)
            dates == {DateOf(sms_list[i]) : i \in S}
            range == stats.date_range
        IN  IF S = {}
            THEN range.earliest = None /\ range.latest = None
            ELSE /\ range.earliest \in dates
                 /\ range.latest \in dates
                 /\ \A d \in dates : Minutes(range.earliest) <= Minutes(d)
                 /\ \A d \in dates : Minutes(d) <= Minutes(range.latest)
                 /\ Minutes(range.earliest) <= Minutes(range.latest)

\* Three successes on three different days, the earliest of them in the
\* middle of the batch, and the latest first.
C10_Witness ==
    /\ StatsDone
    /\ Len(sms_list) = 3
    /\ Successes(sms_list) = {1, 2, 3}
    /\ stats.date_range.earliest = DateOf(sms_list[2])
    /\ stats.date_range.latest = DateOf(sms_list[1])
    /\ Minutes(DateOf(sms_list[2])) < Minutes(DateOf(sms_list[3]))
    /\ Minutes(DateOf(sms_list[3])) < Minutes(DateOf(sms_list[1]))

(***************************************************************************)
(* Properties of the validator.                                            *)
(***************************************************************************)
\* Caller c has validated a dictionary that parse_sms extracted.
ValidatedRecord(c) ==
    /\ frames[c].pc = "done"
    /\ frames[c].op = "validate_parsed_data"
    /\ frames[c].arg # None

\* The nine transaction kinds.
NineKinds ==
    {"received", "sent", "paybill", "till", "withdrawal", "airtime",
     "bank_deposit", "bank_withdrawal", "bank_transfer"}

HasError(errors, msg) == \E k \in 1..Len(errors) : errors[k].msg = msg

C12_SameRecordSameViolations ==
    \A c, d \in Callers :
       (ValidatedRecord(c) /\ ValidatedRecord(d) /\ frames[c].arg = frames[d].arg)
          => frames[c].out = frames[d].out

(***************************************************************************)
(* Properties of parse_sms on the shared parser.                           *)
(***************************************************************************)
\* The call of parse_sms caller c made has returned.
ParsedBy(c) == frames[c].pc = "done" /\ frames[c].op = "parse_sms"

\* C13: two calls of parse_sms on the same text return identical outcomes,
\* whenever each is made and whatever calls are made around them.
C13_Deterministic ==
    \A c, d \in Callers :
       (ParsedBy(c) /\ ParsedBy(d) /\ frames[c].arg = frames[d].arg)
          => frames[c].out = frames[d].out

\* Two callers hold the record of the same text, one of them reached by
\* way of a parser function that raised.
C13_Witness ==
    \E c, d \in Callers :
       /\ c # d
       /\ ParsedBy(c) /\ ParsedBy(d)
       /\ frames[c].arg = frames[d].arg
       /\ frames[c].out.result # None
       /\ Len(frames[c].out.attempted) = 2

\* A whole message of one template, every field of which the normalizers
\* accept: among them a message of amount 0.00.
WellFormedText(x) ==
    /\ IsStr(x)
    /\ \E tpl \in MpesaTemplates, v \in {MpesaGood, MpesaZeroAmount} :
          x.toks = MpesaMessage(tpl, v)

\* C18: a well-formed message parses to a record, in parse_sms and in
\* parse_bulk, also when its amount is 0.00 and when its date is later than
\* the system time; the violation is reported by validate_parsed_data.
C18_NoDomainRejection ==
    \A c \in Callers :
       /\ (ParsedBy(c) /\ WellFormedText(frames[c].arg))
             => (frames[c].out.result # None /\ ~frames[c].out.raised)
       /\ (frames[c].pc = "done" /\ frames[c].op = "parse_bulk")
             => \A k \in 1..Len(frames[c].arg) :
                   WellFormedText(frames[c].arg[k])
                      => "error" \notin DOMAIN frames[c].out[k]
       /\ ValidatedRecord(c)
             => /\ frames[c].arg.amount.coef = 0
                   => HasError(frames[c].out.errors, "Invalid amount")
                /\ Minutes(frames[c].arg.date) > Minutes(frames[c].now)
                   => HasError(frames[c].out.errors,
                               "Transaction date is in the future")

\* A caller holds the record of a message of amount 0.00 whose date is
\* later than the system time, and another the two violations of it.
C18_Witness ==
    \E c, d \in Callers :
       /\ ParsedBy(c)
       /\ frames[c].arg = SentZeroText
       /\ frames[c].out.result # None
       /\ frames[c].out.result.amount.coef = 0
       /\ Minutes(frames[c].out.result.date) > Minutes(clock)
       /\ ValidatedRecord(d)
       /\ frames[d].arg = frames[c].out.result
       /\ HasError(frames[d].out.errors, "Invalid amount")
       /\ HasError(frames[d].out.errors, "Transaction date is in the future")

\* The call of caller c is in the loop of parse_sms.
InLoop(c) == frames[c].pc = "loop" /\ frames[c].op = "parse_sms"

\* The parser functions called before the i-th.
CalledBefore(i) == [k \in 1..(i - 1) |-> parsers[k].parser_func]

\* C19: whatever the other callers do meanwhile, a call of parse_sms works
\* on its own text and its own position in the loop, and returns what
\* parse_sms returns for its text when run alone.
C19_CallsDoNotInterfere ==
    \A c \in Callers :
       /\ ParsedBy(c) => frames[c].out = parse_sms(frames[c].arg)
       /\ InLoop(c)
             => /\ frames[c].sms_text = strip(frames[c].arg)
                /\ frames[c].i \in 1..(Len(parsers) + 1)
                /\ frames[c].attempted = CalledBefore(frames[c].i)
                /\ \A k \in 1..(frames[c].i - 1) :
                      CallParser(parsers[k].parser_func, frames[c].sms_text).st # "ok"

\* Two calls on different texts are in the loop at the same time, one of
\* them past a parser function that raised.
C19_Witness ==
    \E c, d \in Callers :
       /\ c # d
       /\ InLoop(c) /\ InLoop(d)
       /\ frames[c].arg # frames[d].arg
       /\ frames[c].i = 2
       /\ CallParser(parsers[1].parser_func, frames[c].sms_text).st = "raise"
       /\ frames[d].i = 3

(***************************************************************************)
(* Properties of the records.                                              *)
(***************************************************************************)
\* The days of month m of year y, from the calendar.
CalendarDays(m, y) ==
    CASE m \in {1, 3, 5, 7, 8, 10, 12} -> 31
      [] m \in {4, 6, 9, 11} -> 30
      [] m = 2 -> IF (y % 4 = 0 /\ y % 100 # 0) \/ y % 400 = 0 THEN 29 ELSE 28
      [] OTHER -> 0

\* t is a minute of a day of the calendar.
ValidTimestamp(t) ==
    /\ t.year >= 1
    /\ t.month \in 1..12
    /\ t.day \in 1..CalendarDays(t.month, t.year)
    /\ t.hour \in 0..23
    /\ t.minute \in 0..59

\* The date and, for M-Pesa, the time the pattern of parser f captured in
\* the match m.
CapturedDate(f, toks, m) ==
    IF f \in {"_parse_bank_transfer", "_parse_bank_deposit", "_parse_bank_withdrawal"}
    THEN [date |-> toks[m[3]].date]
    ELSE IF f = "_parse_bank_debit" THEN [date |-> toks[m[1]].date]
    ELSE [date |-> toks[m[1]].date, time |-> toks[m[1]].time]

\* The captured text names a day of the calendar and, when it has a time,
\* a 12-hour time with an hour from 1 to 12.
Normalizable(cap) ==
    /\ IF "mm" \in DOMAIN cap.date
       THEN /\ DigitsVal(cap.date.mm) \in 1..12
            /\ DigitsVal(cap.date.dd) \in
                  1..CalendarDays(DigitsVal(cap.date.mm), DigitsVal(cap.date.yyyy))
       ELSE /\ cap.date.mon \in {"Jan", "Feb", "Mar", "Apr", "May", "Jun",
                                 "Jul", "Aug", "Sep", "Oct", "Nov", "Dec"}
            /\ \E mnum \in 1..12 :
                  /\ MonthAbbr(cap.date.mon) = mnum
                  /\ DigitsVal(cap.date.dd) \in
                        1..CalendarDays(mnum, DigitsVal(cap.date.yyyy))
    /\ "time" \in DOMAIN cap =>
          /\ DigitsVal(cap.time.hh) \in 1..12
          /\ DigitsVal(cap.time.mi) \in 0..59

\* C14: a template whose pattern matches a date or time that cannot be
\* normalized yields no record, and the date of every record parse_sms
\* returns is a valid timestamp.
C14_NoRecordFromBadDate ==
    (ParseSmsDone /\ IsStr(sms_in)) =>
       /\ \A i \in 1..Len(parsers) :
             LET f == parsers[i].parser_func
                 toks == strip(sms_in).toks
                 m == Search(f, toks)
             IN  (m # <<>> /\ ~Normalizable(CapturedDate(f, toks, m)))
                    => CallParser(f, strip(sms_in)).st # "ok"
       /\ sms_out.result # None => ValidTimestamp(sms_out.result.date)

\* A received message dated 31/02/2025: the pattern matches, and parse_sms
\* returns no record.
C14_Witness ==
    /\ ParseSmsDone
    /\ IsStr(sms_in)
    /\ Search("_parse_mpesa_received", sms_in.toks) # <<>>
    /\ sms_in.toks[1].date = Date_31_02
    /\ sms_out.result = None

\* parse_sms has returned a record.
Extracted == ParseSmsDone /\ sms_out.result # None

\* The parser function that built the record: the last one called.
Winner == sms_out.attempted[Len(sms_out.attempted)]

\* C15: every record has a transaction_cost, and it is zero when the
\* winning template has no fee clause (received, airtime and the four bank
\* templates).
C15_EveryRecordHasCost ==
    Extracted =>
       /\ "transaction_cost" \in DOMAIN sms_out.result
       /\ Winner \notin {"_parse_mpesa_sent", "_parse_mpesa_paybill",
                         "_parse_mpesa_till", "_parse_mpesa_withdrawal"}
             => sms_out.result.transaction_cost.coef = 0

\* C16: the raw_text of every record is the text parse_sms was given,
\* leading and trailing whitespace included.
C16_RawTextIsInput == Extracted => sms_out.result.raw_text = sms_in

\* The kind each template stands for.
KindOfTemplate(f) ==
    CASE f = "_parse_mpesa_received"   -> "received"
      [] f = "_parse_mpesa_sent"       -> "sent"
      [] f = "_parse_mpesa_paybill"    -> "paybill"
      [] f = "_parse_mpesa_till"       -> "till"
      [] f = "_parse_mpesa_withdrawal" -> "withdrawal"
      [] f = "_parse_mpesa_airtime"    -> "airtime"
      [] f = "_parse_bank_transfer"    -> "bank_transfer"
      [] f = "_parse_bank_deposit"     -> "bank_deposit"
      [] f = "_parse_bank_withdrawal"  -> "bank_withdrawal"
      [] f = "_parse_bank_debit"       -> "bank_withdrawal"

\* C17: the kind of every record is one of the nine kinds and the kind of
\* the winning template (bank withdrawal and bank debit both give
\* bank_withdrawal), and it passes the known-kind check of the validator.
C17_KindInClosedSet ==
    Extracted =>
       /\ sms_out.result.transaction_type \in NineKinds
       /\ sms_out.result.transaction_type = KindOfTemplate(Winner)
       /\ \E k \in 1..Len(transaction_types) :
             transaction_types[k] = sms_out.result.transaction_type
       /\ ~HasError(validate_parsed_data(sms_out.result, clock).errors,
                    "Invalid transaction type")

\* A record of the bank debit template, of kind bank_withdrawal.
C17_Witness ==
    /\ Extracted
    /\ Winner = "_parse_bank_debit"
    /\ sms_out.result.transaction_type = "bank_withdrawal"

\* One message of each of the nine kinds as the synthetic generator writes
\* it, with the kind the generator records for it and the amount written
\* in it (100.10 in the M-Pesa messages, 5,991.87 in the bank messages).
CanonicalExamples ==
    {[kind |-> tpl, sms |-> Str(0, MpesaMessage(tpl, MpesaGood), 0),
      amount |-> [coef |-> 10010, exp |-> 2]] : tpl \in MpesaTemplates}
    \cup
    {[kind |-> "bank_deposit", amount |-> [coef |-> 599187, exp |-> 2],
      sms |-> Str(0, GeneratorBankMessage("Equity Bank", "deposit", BankGood), 0)],
     [kind |-> "bank_withdrawal", amount |-> [coef |-> 599187, exp |-> 2],
      sms |-> Str(0, GeneratorBankMessage("Equity Bank", "withdrawal", BankGood), 0)],
     [kind |-> "bank_transfer", amount |-> [coef |-> 599187, exp |-> 2],
      sms |-> Str(0, GeneratorBankMessage("Equity Bank", "transfer", BankGood), 0)]}

\* C20: the generator's message of each of the nine kinds parses to a
\* record of that kind whose amount is exactly the amount written in it.
C20_CanonicalExamplesParse ==
    \A e \in CanonicalExamples :
       (ParseSmsDone /\ sms_in = e.sms)
          => /\ sms_out.result # None
             /\ sms_out.result.transaction_type = e.kind
             /\ sms_out.result.amount = e.amount

(***************************************************************************)
(* The payment tool (src/tools/invoice_ops.py) and the Daraja service it   *)
(* calls (src/backend/services/daraja_service.py).  An invoice is the      *)
(* dictionary of the invoices file reduced to the keys run reads or        *)
(* writes; an amount is a whole number of shillings; a phone number is its *)
(* optional '+', its leading digits and the number of digits after them.   *)
(* The timestamps run writes (updated_at, payment_initiated_at) are left   *)
(* out: nothing reads them.                                                *)
(***************************************************************************)

\* A key the dictionary does not hold.
NoKey == [nokey |-> TRUE]

\* str.lower on the statuses that occur.
lower(status) ==
    CASE status = "PAID" -> "paid"
      [] status = "Processing" -> "processing"
      [] OTHER -> status

\* SendPaymentRequestInput: invoice_id and force, force defaulting to False.
SendPaymentRequestInput(invoice_id, force) ==
    [invoice_id |-> invoice_id, force |-> force]

\* Index of the first invoice of the list with this id, 0 for None.
get_invoice_by_id(invs, invoice_id) ==
    LET hits == {i \in 1..Len(invs) : invs[i].invoice_id = invoice_id}
    IN  IF hits = {} THEN 0 ELSE CHOOSE i \in hits : \A j \in hits : i <= j

\* What the file system does to a write: it succeeds, open raises, or the
\* write raises after open has truncated the file.
DiskOutcomes == {"ok", "open_fails", "write_fails"}

\* The invoices file: valid JSON holding a list, or a truncated document.
FileOf(invs) == [valid |-> TRUE, invoices |-> invs]
TruncatedFile == [valid |-> FALSE, invoices |-> <<>>]

\* save_invoices: dumps the cached list; logs and re-raises on any error.
save_invoices(invs, file, disk) ==
    CASE disk = "ok" -> [raised |-> FALSE, invoices_file |-> FileOf(invs)]
      [] disk = "open_fails" -> [raised |-> TRUE, invoices_file |-> file]
      [] OTHER -> [raised |-> TRUE, invoices_file |-> TruncatedFile]

\* The outcome of update_invoice_status once the cached invoice is changed.
SaveUpdated(invs, saved) ==
    [raised |-> saved.raised, invoices |-> invs,
     invoices_file |-> saved.invoices_file]

\* A variant that writes payment_info and leaves the status alone.
update_invoice_status_keeps_status(invs, file, invoice_id, status, payment_info, disk) ==
    LET i == get_invoice_by_id(invs, invoice_id)
    IN  IF i = 0
        THEN [raised |-> FALSE, invoices |-> invs, invoices_file |-> file]
        ELSE SaveUpdated(
                 [invs EXCEPT ![i].payment_info =
                     IF payment_info = NoKey THEN @ ELSE payment_info],
                 save_invoices(
                     [invs EXCEPT ![i].payment_info =
                         IF payment_info = NoKey THEN @ ELSE payment_info],
                     file, disk))

\* update_invoice_status: changes the cached dictionary in place, then saves.
update_invoice_status(invs, file, invoice_id, status, payment_info, disk) ==
    LET i == get_invoice_by_id(invs, invoice_id)
    IN  IF i = 0
        THEN [raised |-> FALSE, invoices |-> invs, invoices_file |-> file]
        ELSE SaveUpdated(
                 [invs EXCEPT ![i].status = lower(status),
                              ![i].payment_info =
                                  IF payment_info = NoKey THEN @ ELSE payment_info],
                 save_invoices(
                     [invs EXCEPT ![i].status = lower(status),
                                  ![i].payment_info =
                                      IF payment_info = NoKey THEN @ ELSE payment_info],
                     file, disk))

\* Phone numbers.
Phone(plus, prefix, rest) == [plus |-> plus, prefix |-> prefix, rest |-> rest]
EmptyPhone == Phone(FALSE, "", 0)
PhoneLen(phone) == (IF phone.plus THEN 1 ELSE 0) + Len(phone.prefix) + phone.rest

\* run's normalization: strip, then drop a leading '+'.
NormalizePhone(phone) == [phone EXCEPT !.plus = FALSE]

\* DarajaService._validate_phone_number: TRUE when it raises ValueError.
PhoneIsInvalid(phone) ==
    \/ phone.plus
    \/ phone.prefix \notin {"254", "0"}
    \/ phone.prefix = "254" /\ PhoneLen(phone) # 12
    \/ phone.prefix = "0" /\ PhoneLen(phone) # 10

\* The limits of DarajaService._validate_amount.
MinMpesaAmount == 10
MaxMpesaAmount == 150000

\* DarajaService._validate_amount: TRUE when it raises ValueError.
AmountIsInvalid(amount) ==
    amount <= 0 \/ amount < MinMpesaAmount \/ amount > MaxMpesaAmount

\* DarajaService.trigger_stk_push: validates, registers the payment under a
\* fresh checkout id and answers success.
trigger_stk_push(registry, phone_number, amount, reference) ==
    IF PhoneIsInvalid(phone_number) \/ AmountIsInvalid(amount)
    THEN [raised |-> TRUE, payment_registry |-> registry]
    ELSE [raised |-> FALSE,
          response |-> [success |-> TRUE,
                        checkout_request_id |-> Len(registry) + 1],
          payment_registry |->
              Append(registry, [checkout_request_id |-> Len(registry) + 1,
                                phone_number |-> phone_number,
                                amount |-> amount,
                                reference |-> reference,
                                status |-> "PENDING"])]

\* The dictionary run returns, reduced to the keys callers branch on.
Failure(error, reason, status) ==
    [success |-> FALSE, error |-> error, reason |-> reason, status |-> status]
Success ==
    [success |-> TRUE, error |-> None, reason |-> None, status |-> "processing"]

\* What a call of run leaves behind, with the dictionary it returns.
Outcome(result, invs, file, registry) ==
    [result |-> result, invoices |-> invs, invoices_file |-> file,
     payment_registry |-> registry]

\* A variant of the idempotency checks in which force bypasses both.
IdempotencyCheck_force_bypasses_paid(invoice, force) ==
    CASE force -> "proceed"
      [] lower(invoice.status) = "paid" -> "paid"
      [] lower(invoice.status) = "processing" -> "processing"
      [] OTHER -> "proceed"

\* Steps 2 and 3 of run: paid is refused always, processing unless forced.
IdempotencyCheck(invoice, force) ==
    CASE lower(invoice.status) = "paid" -> "paid"
      [] lower(invoice.status) = "processing" /\ ~force -> "processing"
      [] OTHER -> "proceed"

\* Step 6 and 7 of run, and the except clause around them.
AfterUpdate(updated, registry) ==
    Outcome(IF updated.raised THEN Failure("exception", None, None) ELSE Success,
            updated.invoices, updated.invoices_file, registry)

\* Step 5 of run once trigger_stk_push has returned or raised.
AfterPush(invs, file, invoice_id, phone, amount, pushed, disk) ==
    IF pushed.raised
    THEN Outcome(Failure("exception", None, None), invs, file,
                 pushed.payment_registry)
    ELSE IF ~pushed.response.success
    THEN Outcome(Failure("stk_push_failed", None, None), invs, file,
                 pushed.payment_registry)
    ELSE AfterUpdate(
             update_invoice_status(invs, file, invoice_id, "processing",
                 [checkout_request_id |-> pushed.response.checkout_request_id,
                  phone_number |-> phone, amount |-> amount], disk),
             pushed.payment_registry)

\* Steps 4 and 5 of run.
ValidateAndPush(invs, file, registry, invoice, disk) ==
    IF invoice.customer_phone = None \/ invoice.customer_phone = EmptyPhone
    THEN Outcome(Failure("no_phone", None, None), invs, file, registry)
    ELSE IF invoice.amount_outstanding = 0 \/ invoice.amount_outstanding <= 0
    THEN Outcome(Failure("invalid_amount", None, None), invs, file, registry)
    ELSE AfterPush(invs, file, invoice.invoice_id,
                   NormalizePhone(invoice.customer_phone),
                   invoice.amount_outstanding,
                   trigger_stk_push(registry,
                                    NormalizePhone(invoice.customer_phone),
                                    invoice.amount_outstanding,
                                    invoice.invoice_id),
                   disk)

\* Steps 2 to 7 of run on the invoice found.
RunOnInvoice(invs, file, registry, invoice, force, disk) ==
    CASE IdempotencyCheck(invoice, force) = "paid" ->
             Outcome(Failure("already_paid", "idempotency_check", "paid"),
                     invs, file, registry)
      [] IdempotencyCheck(invoice, force) = "processing" ->
             Outcome(Failure("already_processing", "idempotency_check", "processing"),
                     invs, file, registry)
      [] OTHER -> ValidateAndPush(invs, file, registry, invoice, disk)

\* SendPaymentRequestTool.run.
SendPaymentRequestTool_run(invs, file, registry, input_data, disk) ==
    IF get_invoice_by_id(invs, input_data.invoice_id) = 0
    THEN Outcome(Failure("not_found", None, None), invs, file, registry)
    ELSE RunOnInvoice(invs, file, registry,
                      invs[get_invoice_by_id(invs, input_data.invoice_id)],
                      input_data.force, disk)

(***************************************************************************)
(* The invoices the tool is run on.  The generator writes phone numbers as *)
(* '+254' and nine digits and the statuses paid, unpaid, overdue and       *)
(* partially_paid; the tool itself writes processing.                      *)
(***************************************************************************)
Invoice(invoice_id, status, phone, amount, payment_info) ==
    [invoice_id |-> invoice_id, status |-> status, customer_phone |-> phone,
     amount_outstanding |-> amount, payment_info |-> payment_info]

GeneratorPhone == Phone(TRUE, "254", 9)
LocalPhone == Phone(FALSE, "0", 9)
ShortPhone == Phone(TRUE, "254", 5)

\* A payment_info left by an earlier process of the tool.
EarlierPaymentInfo ==
    [checkout_request_id |-> 0, phone_number |-> Phone(FALSE, "254", 9),
     amount |-> 1500]

InvoiceKinds(invoice_id) ==
    { Invoice(invoice_id, "unpaid", GeneratorPhone, 1500, NoKey),
      Invoice(invoice_id, "overdue", LocalPhone, 5, NoKey),
      Invoice(invoice_id, "partially_paid", GeneratorPhone, 0, NoKey),
      Invoice(invoice_id, "unpaid", EmptyPhone, 1500, NoKey),
      Invoice(invoice_id, "overdue", ShortPhone, 1500, NoKey),
      Invoice(invoice_id, "paid", GeneratorPhone, 0, NoKey),
      Invoice(invoice_id, "PAID", GeneratorPhone, 1500, NoKey),
      Invoice(invoice_id, "processing", GeneratorPhone, 1500, EarlierPaymentInfo) }

\* The invoice ids a caller asks for; the last one is in no file.
RequestIds == {"INV-1", "INV-2", "INV-404"}

\* The number of calls of run a behaviour makes.
MaxRuns == 3

(***************************************************************************)
(* The state machine of the payment tool: one tool, whose data manager has *)
(* loaded the invoices file, is run again and again.                       *)
(***************************************************************************)
\* What the other tools hold while the payment tool runs.
notPayVars == <<parserVars, storeVars, agentVars>>

\* No agent has been constructed.
AgentIdle ==
    /\ agent_pc = "idle"
    /\ max_iterations = 5
    /\ queries = 0
    /\ run_user_id = None
    /\ history = None
    /\ chat = <<>>
    /\ iteration = 0
    /\ logs = <<>>
    /\ agent_result = None

ParserIdle ==
    /\ pc = "idle"
    /\ sms_in = None
    /\ sms_out = None
    /\ sms_list = None
    /\ results = None
    /\ parsed_list = None
    /\ stats = None
    /\ clock = Clock_2025_12_01
    /\ frames = [c \in Callers |-> IdleFrame]
    /\ __init__

PayInit ==
    /\ ParserIdle
    /\ \E first \in InvoiceKinds("INV-1") :
         /\ invoices = <<first, Invoice("INV-2", "unpaid", GeneratorPhone, 2500, NoKey)>>
         /\ invoices_file = FileOf(invoices)
    /\ payment_registry = <<>>
    /\ runs = <<>>
    /\ AgentIdle
    /\ sessions = <<>>
    /\ max_history = 10
    /\ added = <<>>

\* The invoice of the list a call is about, None when there is none.
InvoiceOf(invs, invoice_id) ==
    IF get_invoice_by_id(invs, invoice_id) = 0
    THEN None
    ELSE invs[get_invoice_by_id(invs, invoice_id)]

\* The record of one call: its input, what it returned, the invoice before
\* and after it, and whether the Daraja service registered a payment.
RunRecord(input_data, out) ==
    [input |-> input_data,
     result |-> out.result,
     before |-> InvoiceOf(invoices, input_data.invoice_id),
     after |-> InvoiceOf(out.invoices, input_data.invoice_id),
     file_before |-> invoices_file,
     file_after |-> out.invoices_file,
     pushed |-> Len(out.payment_registry) > Len(payment_registry)]

Ran(input_data, out) ==
    /\ invoices' = out.invoices
    /\ invoices_file' = out.invoices_file
    /\ payment_registry' = out.payment_registry
    /\ runs' = Append(runs, RunRecord(input_data, out))

RunSendPaymentRequest ==
    /\ Len(runs) < MaxRuns
    /\ \E invoice_id \in RequestIds, force \in BOOLEAN, disk \in DiskOutcomes :
         Ran(SendPaymentRequestInput(invoice_id, force),
             SendPaymentRequestTool_run(invoices, invoices_file, payment_registry,
                 SendPaymentRequestInput(invoice_id, force), disk))
    /\ UNCHANGED notPayVars

PayNext == RunSendPaymentRequest

PaySpec == PayInit /\ [][PayNext]_vars

\* C21: once a run for an invoice has succeeded, every later run for that
\* invoice without force fails with reason 'idempotency_check' and sends no
\* STK push; and over runs none of which is forced, the Daraja service
\* registers at most one payment per invoice.
PushesFor(invoice_id) ==
    {k \in 1..Len(payment_registry) : payment_registry[k].reference = invoice_id}
UnforcedOnly(invoice_id) ==
    \A j \in 1..Len(runs) :
        runs[j].input.invoice_id = invoice_id => ~runs[j].input.force
C21_DuplicateRefused ==
    /\ \A i \in 1..Len(runs), j \in 1..Len(runs) :
           ( /\ i < j
             /\ runs[i].result.success
             /\ runs[j].input.invoice_id = runs[i].input.invoice_id
             /\ ~runs[j].input.force )
           => /\ ~runs[j].result.success
              /\ runs[j].result.reason = "idempotency_check"
              /\ ~runs[j].pushed
    /\ \A invoice_id \in RequestIds :
           UnforcedOnly(invoice_id) => Cardinality(PushesFor(invoice_id)) <= 1

\* A run succeeded with an STK push, and a later unforced run for the same
\* invoice was made.
C21_Witness ==
    \E i \in 1..Len(runs), j \in 1..Len(runs) :
        /\ i < j
        /\ runs[i].result.success
        /\ runs[i].pushed
        /\ runs[i].after.status = "processing"
        /\ runs[j].input.invoice_id = runs[i].input.invoice_id
        /\ ~runs[j].input.force

\* C28: whenever run returns success = False, the invoice's status and
\* payment_info are what they were before the call, and if the call has sent
\* an STK push the invoice is marked 'processing'.
FailedRuns == {j \in 1..Len(runs) : ~runs[j].result.success}
C28_FailureChangesNothing ==
    \A j \in FailedRuns :
        /\ runs[j].before # None =>
               /\ runs[j].after.status = runs[j].before.status
               /\ runs[j].after.payment_info = runs[j].before.payment_info
        /\ runs[j].pushed => runs[j].after.status = "processing"

\* C29: run on a paid invoice fails with reason 'idempotency_check', sends no
\* STK push and leaves the invoice as it was, with or without force; on a
\* processing invoice that can be charged, force lets the push go out.
RunsOnPaid ==
    {j \in 1..Len(runs) :
        runs[j].before # None /\ lower(runs[j].before.status) = "paid"}
ForcedRunsOnProcessing ==
    {j \in 1..Len(runs) :
        /\ runs[j].input.force
        /\ runs[j].before # None
        /\ runs[j].before.status = "processing"
        /\ ~PhoneIsInvalid(NormalizePhone(runs[j].before.customer_phone))
        /\ ~AmountIsInvalid(runs[j].before.amount_outstanding)}
C29_PaidNeverRequested ==
    /\ \A j \in RunsOnPaid :
           /\ ~runs[j].result.success
           /\ runs[j].result.reason = "idempotency_check"
           /\ ~runs[j].pushed
           /\ runs[j].after = runs[j].before
           /\ runs[j].file_after = runs[j].file_before
    /\ \A j \in ForcedRunsOnProcessing : runs[j].pushed

\* A paid invoice was run with force, and so was a processing one.
C29_Witness ==
    /\ \E j \in RunsOnPaid : runs[j].input.force
    /\ ForcedRunsOnProcessing # {}

(***************************************************************************)
(* The session store (src/backend/utils/logger.py).  sessions maps the     *)
(* users that have a history to their list of turns; a turn is its role    *)
(* and its content, the content standing for the text and the timestamp.   *)
(***************************************************************************)
\* The default of the constructor's max_history.
DefaultMaxHistory == 10

\* The Python slice l[-k:].
LastSlice(l, k) ==
    LET start == IF -k < 0
                 THEN (IF Len(l) - k < 0 THEN 0 ELSE Len(l) - k)
                 ELSE (IF -k > Len(l) THEN Len(l) ELSE -k)
    IN  SubSeq(l, start + 1, Len(l))

\* A variant that keeps the oldest turns.
Trim_keeps_oldest(l, limit) ==
    IF Len(l) > limit THEN SubSeq(l, 1, limit) ELSE l

\* The trimming step of add_turn.
Trim(l, limit) ==
    IF Len(l) > limit THEN LastSlice(l, limit) ELSE l

\* get_history: the user's list, [] when there is none.
get_history(store, user_id) ==
    IF user_id \in DOMAIN store THEN store[user_id] ELSE <<>>

Turn(role, content) == [role |-> role, content |-> content]

\* add_turn: creates the list when missing, appends, trims.
add_turn(store, limit, user_id, role, content) ==
    [u \in DOMAIN store \cup {user_id} |->
        IF u = user_id
        THEN Trim(Append(get_history(store, user_id), Turn(role, content)), limit)
        ELSE store[u]]

\* clear_session: deletes the user's entry when there is one.
clear_session(store, user_id) ==
    [u \in DOMAIN store \ {user_id} |-> store[u]]

\* The users, the roles and the number of turns a behaviour adds.
Users == {"alice", "bob"}
Roles == {"user", "assistant"}
MaxTurns == 4
\* The largest max_history a store is constructed with.
MaxHistory == 2

\* The number of turns added so far and not cleared, over all users.
TurnsAdded == Len(added["alice"]) + Len(added["bob"])

NoTurns == [u \in Users |-> <<>>]

StoreInit ==
    /\ ParserIdle
    /\ AgentIdle
    /\ invoices = <<>>
    /\ invoices_file = <<>>
    /\ payment_registry = <<>>
    /\ runs = <<>>
    /\ sessions = <<>>
    /\ max_history \in 0..MaxHistory
    /\ added = NoTurns

notStoreVars == <<parserVars, payVars, agentVars>>

AddTurn ==
    /\ TurnsAdded < MaxTurns
    /\ \E user_id \in Users, role \in Roles :
         /\ sessions' = add_turn(sessions, max_history, user_id, role, TurnsAdded + 1)
         /\ added' = [added EXCEPT ![user_id] = Append(@, Turn(role, TurnsAdded + 1))]
    /\ UNCHANGED <<max_history, notStoreVars>>

ClearSession ==
    /\ \E user_id \in Users :
         /\ sessions' = clear_session(sessions, user_id)
         /\ added' = [added EXCEPT ![user_id] = <<>>]
    /\ UNCHANGED <<max_history, notStoreVars>>

StoreNext == AddTurn \/ ClearSession

StoreSpec == StoreInit /\ [][StoreNext]_vars

\* The last n elements of a list, all of it when it is shorter.
MostRecent(l, n) ==
    IF Len(l) <= n THEN l ELSE SubSeq(l, Len(l) - n + 1, Len(l))

\* C23: after any add_turn and clear_session calls, each user's history has
\* at most max_history turns and is the user's most recent turns in the
\* order they were added; it holds no turn of another user.
C23_HistoryBounded ==
    \A u \in Users :
        /\ Len(get_history(sessions, u)) <= max_history
        /\ get_history(sessions, u) = MostRecent(added[u], max_history)

\* With a limit of at least one turn the history is the most recent turns.
HistoryBoundedWhenPositive ==
    max_history >= 1 => C23_HistoryBounded

(***************************************************************************)
(* The agent (src/agent/orchestrator.py): FinGuardIntelliAgent.run and     *)
(* _execute_tool.  An answer of the model is what chat.send_message does:  *)
(* it raises, or returns a response without candidates, without parts, or  *)
(* with a list of parts, each a text or a function call.  A function call  *)
(* carries the one argument its tool reads, or none.                       *)
(***************************************************************************)
TextPart == [kind |-> "text", name |-> "", arg |-> [present |-> FALSE]]
Arg(value) == [present |-> TRUE, value |-> value]
\* A string argument that is no SMS text.
Name(s) == [k |-> "name", s |-> s]
NoArg == [present |-> FALSE]
FunctionCall(name, arg) == [kind |-> "function_call", name |-> name, arg |-> arg]

Answer(kind, parts) == [kind |-> kind, parts |-> parts]

\* What a tool hands back: a dictionary with its 'success', or a string.
DictResult(success) == [type |-> "dict", success |-> success]
StrResult == [type |-> "str", success |-> FALSE]

\* What _execute_tool leaves behind, with the value it returns.
ToolOutcome(result, invs, file, registry) ==
    [result |-> result, invoices |-> invs, invoices_file |-> file,
     payment_registry |-> registry]

\* The send_payment_request branch once the tool has run.
PaymentOutcome(out) ==
    ToolOutcome(DictResult(out.result.success), out.invoices,
                out.invoices_file, out.payment_registry)

\* _execute_tool: routes by name; any exception becomes a failure dictionary.
\* get_financial_insights hands back what RAGInsightsTool.run returns, a str.
_execute_tool(tool_name, arg, invs, file, registry, disk) ==
    CASE tool_name = "parse_sms" ->
             ToolOutcome(
                 DictResult(parse_sms(IF arg.present THEN arg.value
                                      ELSE Str(0, <<>>, 0)).result # None),
                 invs, file, registry)
      [] tool_name = "get_financial_insights" ->
             ToolOutcome(StrResult, invs, file, registry)
      [] tool_name = "get_unpaid_invoices" ->
             ToolOutcome(DictResult(TRUE), invs, file, registry)
      [] tool_name = "send_payment_request" ->
             IF ~arg.present
             THEN ToolOutcome(DictResult(FALSE), invs, file, registry)
             ELSE PaymentOutcome(
                      SendPaymentRequestTool_run(invs, file, registry,
                          SendPaymentRequestInput(arg.value.s, FALSE), disk))
      [] OTHER -> ToolOutcome(DictResult(FALSE), invs, file, registry)

\* An entry of the trace logger's logs.
Log(step, tool_name, success) ==
    [step |-> step, tool_name |-> tool_name, success |-> success]

\* What the loop over the parts of one answer has done so far.
PartsState(l, invs, file, registry, has_function_calls, raised) ==
    [logs |-> l, invoices |-> invs, invoices_file |-> file,
     payment_registry |-> registry,
     has_function_calls |-> has_function_calls, raised |-> raised]

\* log_act has been called and _execute_tool has returned: log_observe is
\* reached only when tool_result.get('success', True) does not raise.
Observe(part, st, out) ==
    IF out.result.type = "str"
    THEN PartsState(Append(st.logs, Log("act", part.name, FALSE)),
                    out.invoices, out.invoices_file, out.payment_registry,
                    TRUE, TRUE)
    ELSE PartsState(Append(Append(st.logs, Log("act", part.name, FALSE)),
                           Log("observe", part.name, out.result.success)),
                    out.invoices, out.invoices_file, out.payment_registry,
                    TRUE, FALSE)

\* The body of the loop over candidate.content.parts for one part.
ProcessPart(part, st, disk) ==
    IF part.kind = "text"
    THEN [st EXCEPT !.logs = Append(@, Log("think", "", FALSE))]
    ELSE Observe(part, st,
                 _execute_tool(part.name, part.arg, st.invoices,
                               st.invoices_file, st.payment_registry, disk))

\* The loop over candidate.content.parts; an exception ends it.
RECURSIVE ProcessParts(_, _, _, _)
ProcessParts(parts, k, st, disk) ==
    IF k > Len(parts) \/ st.raised
    THEN st
    ELSE ProcessParts(parts, k + 1, ProcessPart(parts[k], st, disk), disk)

\* The dictionary run returns, reduced to what callers branch on.
RunResult(success, error, has_trajectory) ==
    [success |-> success, error |-> error, has_trajectory |-> has_trajectory]

\* The tools the model is told about, and a name it may make up.
ToolNames ==
    {"parse_sms", "get_financial_insights", "get_unpaid_invoices",
     "send_payment_request"}
UnknownTool == "delete_invoice"

\* The answers of the model.
ModelAnswers ==
    { Answer("raise", <<>>),
      Answer("no_candidates", <<>>),
      Answer("no_parts", <<>>),
      Answer("parts", <<TextPart>>),
      Answer("parts", <<FunctionCall("parse_sms", Arg(ReceivedText))>>),
      Answer("parts", <<FunctionCall("parse_sms", NoArg)>>),
      Answer("parts", <<FunctionCall("get_financial_insights", Arg(Name("query")))>>),
      Answer("parts", <<FunctionCall("get_unpaid_invoices", NoArg)>>),
      Answer("parts", <<FunctionCall("send_payment_request", Arg(Name("INV-1")))>>),
      Answer("parts", <<FunctionCall("send_payment_request", NoArg)>>),
      Answer("parts", <<FunctionCall(UnknownTool, NoArg)>>),
      Answer("parts", <<TextPart, FunctionCall("get_unpaid_invoices", NoArg)>>),
      Answer("parts", <<FunctionCall(UnknownTool, NoArg),
                        FunctionCall("parse_sms", Arg(ReceivedText))>>) }

\* The largest max_iterations an agent is constructed with, and the number
\* of queries a behaviour runs.
MaxIterations == 2
MaxQueries == 2

AgentInit ==
    /\ ParserIdle
    /\ invoices = <<Invoice("INV-1", "unpaid", GeneratorPhone, 1500, NoKey)>>
    /\ invoices_file = FileOf(invoices)
    /\ payment_registry = <<>>
    /\ runs = <<>>
    /\ sessions = <<>>
    /\ max_history = DefaultMaxHistory
    /\ added = NoTurns
    /\ agent_pc = "idle"
    /\ max_iterations \in 0..MaxIterations
    /\ queries = 0
    /\ run_user_id = None
    /\ history = None
    /\ chat = <<>>
    /\ iteration = 0
    /\ logs = <<>>
    /\ agent_result = None

\* Steps 1 and 2 of run: a fresh trace logger, the history, the chat.
StartRun ==
    /\ agent_pc = "idle"
    /\ queries < MaxQueries
    /\ queries' = queries + 1
    /\ \E u \in Users :
         /\ run_user_id' = u
         /\ history' = get_history(sessions, u)
    /\ chat' = <<>>
    /\ iteration' = 0
    /\ logs' = <<Log("context", "", FALSE)>>
    /\ agent_result' = None
    /\ agent_pc' = "loop"
    /\ UNCHANGED <<max_iterations, parserVars, payVars, storeVars>>

\* run returns: the logs as they are, the dictionary, the tools' state.
Returns(result, l, st) ==
    /\ agent_pc' = "done"
    /\ agent_result' = result
    /\ logs' = l
    /\ invoices' = st.invoices
    /\ invoices_file' = st.invoices_file
    /\ payment_registry' = st.payment_registry

\* Step 4 of run: the two turns are added to the session.
UpdateContext ==
    /\ sessions' = add_turn(add_turn(sessions, max_history, run_user_id,
                                     "user", queries),
                            max_history, run_user_id, "assistant", queries)
    /\ added' = [added EXCEPT ![run_user_id] =
                    Append(Append(@, Turn("user", queries)),
                           Turn("assistant", queries))]

\* One pass of the loop once the parts of the answer have been processed;
\* send_ok tells whether the chat takes the function results or raises.
AfterParts(st, send_ok) ==
    CASE st.raised ->
             /\ Returns(RunResult(FALSE, "unexpected_error", FALSE),
                        Append(st.logs, Log("error", "", FALSE)), st)
             /\ UNCHANGED <<sessions, added>>
      [] ~st.raised /\ ~st.has_function_calls ->
             /\ Returns(RunResult(TRUE, "", TRUE),
                        Append(st.logs, Log("final", "", FALSE)), st)
             /\ UpdateContext
      [] ~st.raised /\ st.has_function_calls /\ ~send_ok ->
             /\ Returns(RunResult(FALSE, "send_results_error", TRUE),
                        Append(st.logs, Log("error", "", FALSE)), st)
             /\ UNCHANGED <<sessions, added>>
      [] OTHER ->
             /\ agent_pc' = "loop"
             /\ agent_result' = None
             /\ logs' = st.logs
             /\ invoices' = st.invoices
             /\ invoices_file' = st.invoices_file
             /\ payment_registry' = st.payment_registry
             /\ UNCHANGED <<sessions, added>>

\* The state of the tools and of the logs when a pass of the loop begins.
PassStart ==
    PartsState(logs, invoices, invoices_file, payment_registry, FALSE, FALSE)

\* One pass of the Think-Act-Observe loop.
Iterate ==
    /\ agent_pc = "loop"
    /\ iteration < max_iterations
    /\ iteration' = iteration + 1
    /\ \E answer \in ModelAnswers, disk \in DiskOutcomes, send_ok \in BOOLEAN :
         /\ chat' = IF answer.kind = "parts" /\ ~send_ok
                    THEN Append(Append(chat, answer), Answer("raise", <<>>))
                    ELSE Append(chat, answer)
         /\ IF answer.kind = "parts"
            THEN AfterParts(ProcessParts(answer.parts, 1, PassStart, disk), send_ok)
            ELSE /\ Returns(RunResult(FALSE, answer.kind, FALSE),
                            Append(logs, Log("error", "", FALSE)), PassStart)
                 /\ UNCHANGED <<sessions, added>>
    /\ UNCHANGED <<max_iterations, queries, run_user_id, history, runs,
                   max_history, parserVars>>

\* The loop condition fails: the maximum number of iterations is reached.
GiveUp ==
    /\ agent_pc = "loop"
    /\ iteration >= max_iterations
    /\ Returns(RunResult(FALSE, "max_iterations", TRUE),
               Append(logs, Log("error", "", FALSE)), PassStart)
    /\ UNCHANGED <<max_iterations, queries, run_user_id, history, chat, iteration,
                   runs, storeVars, parserVars>>

\* The caller has the dictionary and may ask again.
TakeResult ==
    /\ agent_pc = "done"
    /\ agent_pc' = "idle"
    /\ UNCHANGED <<max_iterations, queries, run_user_id, history, chat, iteration,
                   logs, agent_result, payVars, storeVars, parserVars>>

AgentNext == StartRun \/ Iterate \/ GiveUp \/ TakeResult

AgentSpec == AgentInit /\ [][AgentNext]_vars

\* The loop counter never passes max_iterations, and a run that is over has
\* returned a dictionary.
RunBounded ==
    /\ iteration <= max_iterations
    /\ Len(chat) <= 2 * max_iterations
    /\ agent_pc = "done" => agent_result # None

\* A run whose loop is scheduled comes to its end.
AgentLiveSpec == AgentSpec /\ WF_vars(Iterate \/ GiveUp)
RunTerminates == (agent_pc = "loop") ~> (agent_pc = "done")

\* Every answer the chat gave in this run asked for a tool.
AsksForTool(answer) ==
    /\ answer.kind = "parts"
    /\ \E k \in 1..Len(answer.parts) : answer.parts[k].kind = "function_call"
KeepsRequestingTools == \A k \in 1..Len(chat) : AsksForTool(chat[k])

\* C22: every run ends with a result after at most max_iterations passes of
\* the loop, and when the model keeps requesting tool calls the run ends with
\* success = False and the 'reached maximum iterations' error.
C22_EndsAtMaxIterations ==
    /\ RunBounded
    /\ (agent_pc = "done" /\ KeepsRequestingTools) =>
           /\ ~agent_result.success
           /\ agent_result.error = "max_iterations"

\* C30: in the logs every 'act' entry is immediately followed by an 'observe'
\* entry for the same tool, and the session of the user gains the user and
\* assistant turns exactly when the run ends with a final text response.
ActsObserved ==
    \A k \in 1..Len(logs) :
        logs[k].step = "act" =>
            /\ k < Len(logs)
            /\ logs[k + 1].step = "observe"
            /\ logs[k + 1].tool_name = logs[k].tool_name
EndedWithFinal ==
    /\ agent_result.success
    /\ logs[Len(logs)].step = "final"
SessionUpdatedOnlyOnFinal ==
    agent_pc = "done" =>
        IF EndedWithFinal
        THEN get_history(sessions, run_user_id) =
                 Trim(Append(Trim(Append(history, Turn("user", queries)),
                                  max_history),
                             Turn("assistant", queries)),
                      max_history)
        ELSE get_history(sessions, run_user_id) = history
C30_ActThenObserve ==
    /\ agent_pc \in {"loop", "done"} => ActsObserved
    /\ SessionUpdatedOnlyOnFinal

(***************************************************************************)
(* Further properties of the parser.                                       *)
(***************************************************************************)
\* The templates whose pattern matches a text and one of whose normalizers
\* raises.
Raisers(text) ==
    {i \in 1..Len(PriorityOrder) : CallParser(PriorityOrder[i], text).st = "raise"}

\* No template before the i-th succeeds on the text.
ReachedBySearch(i, text) == \A j \in Winners(text) : i < j

\* C24: a template whose pattern matches and whose normalizer fails counts as
\* no match: the dispatcher goes on with the templates after it, in order,
\* and a later template that succeeds on the same text wins.
C24_NormalizerFailureIsNoMatch ==
    (ParseSmsDone /\ IsStr(sms_in) /\ ~Falsy(sms_in)) =>
        \A i \in Raisers(strip(sms_in)) :
            ReachedBySearch(i, strip(sms_in)) =>
                /\ ~sms_out.raised
                /\ Len(sms_out.attempted) >= i
                /\ sms_out.attempted[i] = PriorityOrder[i]
                /\ IF Winners(strip(sms_in)) = {}
                   THEN /\ sms_out.result = None
                        /\ sms_out.attempted = PriorityOrder
                   ELSE /\ Len(sms_out.attempted) = Least(Winners(strip(sms_in)))
                        /\ sms_out.result =
                               CallParser(PriorityOrder[Least(Winners(strip(sms_in)))],
                                          strip(sms_in)).rec

\* A text on which an earlier template matches and fails in a normalizer
\* and a later template succeeds: the later one has won.
C24_Witness ==
    /\ ParseSmsDone /\ IsStr(sms_in) /\ ~Falsy(sms_in)
    /\ \E i \in Raisers(strip(sms_in)) :
         /\ ReachedBySearch(i, strip(sms_in))
         /\ Winners(strip(sms_in)) # {}
    /\ sms_out.result # None

\* The number of digits after the point of a captured amount.
FractionalDigits(str) ==
    IF DotAt(RemoveCommas(str)) = 0 THEN 0
    ELSE Len(RemoveCommas(str)) - DotAt(RemoveCommas(str))

\* Without its separators and an optional leading sign, the string is made
\* of digits and at most one point.
NumericResidue(str) ==
    LET clean == RemoveCommas(str)
        body  == IF Len(clean) > 0 /\ clean[1] = "-"
                 THEN SubSeq(clean, 2, Len(clean)) ELSE clean
    IN  /\ \A i \in 1..Len(body) : body[i] \in Digits \cup {"."}
        /\ Cardinality({i \in 1..Len(body) : body[i] = "."}) <= 1
        /\ \E i \in 1..Len(body) : body[i] \in Digits

\* The strings the amount, balance and cost slots of the clauses of a text
\* hold.
CapturedAmounts(x) ==
    UNION { {x.toks[k][slot] : slot \in {"amount", "balance", "cost"} \cap DOMAIN x.toks[k]} :
            k \in 1..Len(x.toks) }

AmountFields == {"amount", "balance", "transaction_cost"}

\* C25: the amount normalizer fails for a captured string with a non-numeric
\* residue or with more than 2 fractional digits, so no record has an
\* amount, balance or cost with more than 2 fractional digits.
C25_AtMostTwoFractionalDigits ==
    /\ (ParseSmsDone /\ IsStr(sms_in)) =>
           \A str \in CapturedAmounts(sms_in) :
               (~NumericResidue(str) \/ FractionalDigits(str) > 2)
                   => ~_parse_amount(str).ok
    /\ Extracted =>
           \A field \in AmountFields \cap DOMAIN sms_out.result :
               sms_out.result[field].exp <= 2

\* The fee the text states: the cost clause the pattern of parser f binds
\* its last anchor to.
FeeInText(f, text) ==
    _parse_amount(text.toks[Search(f, text.toks)[3]].cost).val

\* C27: a record of the agent-withdrawal template has transaction_cost zero
\* whatever fee the text states; a record of the sent, paybill or till
\* template has the fee of the text as its transaction_cost.
C27_WithdrawalCostIsZero ==
    Extracted =>
        /\ Winner = "_parse_mpesa_withdrawal" =>
               sms_out.result.transaction_cost = DecZero
        /\ Winner \in {"_parse_mpesa_sent", "_parse_mpesa_paybill", "_parse_mpesa_till"} =>
               sms_out.result.transaction_cost = FeeInText(Winner, strip(sms_in))

\* A withdrawal message that states a fee of Ksh13.00 has given a record
\* whose cost is zero.
C27_Witness ==
    /\ Extracted
    /\ Winner = "_parse_mpesa_withdrawal"
    /\ \E k \in 1..Len(sms_in.toks) :
         /\ sms_in.toks[k].k = "cost"
         /\ _parse_amount(sms_in.toks[k].cost).ok
         /\ _parse_amount(sms_in.toks[k].cost).val.coef > 0
    /\ sms_out.result.transaction_cost.coef = 0

(***************************************************************************)
(* The parser object under any sequence of calls.                          *)
(***************************************************************************)
\* C26: whatever calls of parse_sms, parse_bulk, validate_parsed_data,
\* get_transaction_summary and get_statistics have been made, the compiled
\* patterns and the list of supported types are those the constructor
\* built, and every call of parse_sms has tried the templates in the one
\* priority order.
C26_RegistryNeverChanges ==
    /\ self_patterns = _compile_patterns
    /\ self_transaction_types = transaction_types
    /\ \A c \in Callers :
          frames[c].op \in Operations \cup {""}
    /\ \A c \in Callers :
          frames[c].op = "parse_sms" =>
              frames[c].attempted = CalledBefore(Len(frames[c].attempted) + 1)

\* One caller has had a dictionary validated and the other has been given
\* the summary of one, on a parser whose attributes are as built.
C26_Witness ==
    /\ __init__
    /\ frames[1].pc = "done"
    /\ frames[1].op = "validate_parsed_data"
    /\ frames[1].arg # None
    /\ frames[2].pc = "done"
    /\ frames[2].op = "get_transaction_summary"
    /\ frames[2].out # FailedToParse

====
